---- MODULE Spec2Model ----
(***************************************************************************)
(* The webwright shell session: input classification (lib/shell/parser),   *)
(* input cleaning (lib/shell/input_buffer), the command executor           *)
(* (lib/shell/executor) and the orchestrator loop of WebrightShell         *)
(* (webwright/main.py) with its pending-command queue and prompt prefill.  *)
(*                                                                         *)
(* Python strings are modelled as sequences of one-character strings, so   *)
(* that strip, lower, startswith, "in", split and replace are computed     *)
(* character by character as the library computes them.                    *)
(***************************************************************************)
EXTENDS Naturals, Integers, Sequences, FiniteSets, TLC

VARIABLES state, pc, step, os_name, call

vars == <<state, pc, step, os_name, call>>

---------------------------------------------------------------------------
(* Bounds of the model.                                                    *)

\* the loop takes no further line once history holds this many entries
MaxHistory == 2

---------------------------------------------------------------------------
(* Python str operations.                                                  *)

\* the character U+0060, which the string syntax here cannot hold
backtick == "<backtick>"

Whitespace == {" ", "\t", "\n", "\r", "\f"}

IsSpace(c) == c \in Whitespace

UpperLetters == <<"A","B","C","D","E","F","G","H","I","J","K","L","M","N","O","P","Q","R","S","T","U","V","W","X","Y","Z">>

LowerLetters == <<"a","b","c","d","e","f","g","h","i","j","k","l","m","n","o","p","q","r","s","t","u","v","w","x","y","z">>

Digits == {"0","1","2","3","4","5","6","7","8","9"}

startswith(t, p) == Len(p) <= Len(t) /\ SubSeq(t, 1, Len(p)) = p

lower_char(c) ==
    IF \E i \in 1..Len(UpperLetters) : UpperLetters[i] = c
    THEN LowerLetters[CHOOSE i \in 1..Len(UpperLetters) : UpperLetters[i] = c]
    ELSE c

lower(t) == [i \in 1..Len(t) |-> lower_char(t[i])]

RECURSIVE lstrip(_)
lstrip(t) ==
    IF t = <<>> THEN t
    ELSE IF IsSpace(Head(t)) THEN lstrip(Tail(t)) ELSE t

RECURSIVE rstrip(_)
rstrip(t) ==
    IF t = <<>> THEN t
    ELSE IF IsSpace(t[Len(t)]) THEN rstrip(SubSeq(t, 1, Len(t) - 1)) ELSE t

strip(t) == rstrip(lstrip(t))

endswith(t, p) == Len(p) <= Len(t) /\ SubSeq(t, Len(t) - Len(p) + 1, Len(t)) = p

\* p in t
contains(t, p) ==
    Len(p) <= Len(t) /\ \E i \in 0..(Len(t) - Len(p)) : SubSeq(t, i + 1, i + Len(p)) = p

\* t.split(): the maximal runs of non-whitespace characters
RECURSIVE split_ws(_, _, _)
split_ws(t, cur, acc) ==
    IF t = <<>> THEN (IF cur = <<>> THEN acc ELSE Append(acc, cur))
    ELSE IF IsSpace(Head(t))
         THEN split_ws(Tail(t), <<>>, IF cur = <<>> THEN acc ELSE Append(acc, cur))
         ELSE split_ws(Tail(t), Append(cur, Head(t)), acc)

split(t) == split_ws(t, <<>>, <<>>)

\* t.split(sep) for a non-empty separator: empty pieces are kept
RECURSIVE split_sep(_, _, _, _)
split_sep(t, sep, cur, acc) ==
    IF t = <<>> THEN Append(acc, cur)
    ELSE IF startswith(t, sep)
         THEN split_sep(SubSeq(t, Len(sep) + 1, Len(t)), sep, <<>>, Append(acc, cur))
         ELSE split_sep(Tail(t), sep, Append(cur, Head(t)), acc)

split_on(t, sep) == split_sep(t, sep, <<>>, <<>>)

\* t.replace(old, new): the non-overlapping occurrences, left to right
RECURSIVE replace(_, _, _)
replace(t, old, new) ==
    IF old = <<>> \/ Len(t) < Len(old) THEN t
    ELSE IF SubSeq(t, 1, Len(old)) = old
         THEN new \o replace(SubSeq(t, Len(old) + 1, Len(t)), old, new)
         ELSE <<Head(t)>> \o replace(Tail(t), old, new)

\* sep.join(parts)
RECURSIVE join(_, _)
join(sep, parts) ==
    IF parts = <<>> THEN <<>>
    ELSE IF Len(parts) = 1 THEN parts[1]
    ELSE parts[1] \o sep \o join(sep, Tail(parts))

isdigit(t) == t # <<>> /\ \A i \in 1..Len(t) : t[i] \in Digits

digit_value(c) ==
    CASE c = "0" -> 0 [] c = "1" -> 1 [] c = "2" -> 2 [] c = "3" -> 3 [] c = "4" -> 4
      [] c = "5" -> 5 [] c = "6" -> 6 [] c = "7" -> 7 [] c = "8" -> 8 [] c = "9" -> 9

\* int(t) of a string of digits
RECURSIVE int_of(_, _)
int_of(t, acc) ==
    IF t = <<>> THEN acc ELSE int_of(Tail(t), 10 * acc + digit_value(Head(t)))

---------------------------------------------------------------------------
(* lib/shell/parser.py: InputParser.                                       *)

SHELL_COMMANDS_BASE ==
    { <<"l","s">>, <<"c","d">>, <<"p","w","d">>, <<"c","a","t">>, <<"e","c","h","o">>, <<"g","r","e","p">>, <<"f","i","n","d">>, <<"g","i","t">>,
      <<"p","y","t","h","o","n">>, <<"n","o","d","e">>, <<"n","p","m">>, <<"p","i","p">>, <<"d","o","c","k","e","r">>, <<"k","u","b","e","c","t","l">>,
      <<"m","k","d","i","r">>, <<"r","m">>, <<"c","p">>, <<"m","v">>, <<"t","o","u","c","h">>, <<"c","h","m","o","d">>, <<"c","h","o","w","n">>,
      <<"p","s">>, <<"k","i","l","l">>, <<"t","o","p">>, <<"d","f">>, <<"d","u">>, <<"t","a","r">>, <<"g","z","i","p">>, <<"c","u","r","l">>, <<"w","g","e","t">>,
      <<"e","x","p","o","r","t">>, <<"m","o","d","e">> }

SHELL_COMMANDS_NT == { <<"d","i","r">>, <<"t","y","p","e">>, <<"c","l","s">>, <<"c","o","p","y">>, <<"d","e","l">> }

SHELL_COMMANDS(os) ==
    IF os = "nt" THEN SHELL_COMMANDS_BASE \cup SHELL_COMMANDS_NT ELSE SHELL_COMMANDS_BASE

AI_PREFIX == <<"a","i",":">>

shell_operators == { <<"|">>, <<">">>, <<"<">>, <<"&","&">>, <<"|","|">>, <<";">>, <<">",">">> }

\* a faulty test: the shell operators are not looked for
_is_shell_command_without_operators(text, os) ==
    LET words == split(text)
        first_word == IF words # <<>> THEN words[1] ELSE <<>>
    IN  \/ first_word \in SHELL_COMMANDS(os)
        \/ startswith(first_word, <<".","/">>) \/ startswith(first_word, <<"/">>)
        \/ contains(first_word, <<"=">>) /\ ~contains(first_word, <<" ">>)

_is_shell_command(text, os) ==
    LET words == split(text)
        first_word == IF words # <<>> THEN words[1] ELSE <<>>
    IN  \/ first_word \in SHELL_COMMANDS(os)
        \/ \E op \in shell_operators : contains(text, op)
        \/ startswith(first_word, <<".","/">>) \/ startswith(first_word, <<"/">>)
        \/ contains(first_word, <<"=">>) /\ ~contains(first_word, <<" ">>)

\* a faulty cascade: the shell test comes before the ai: test
classify_shell_first(user_input, os) ==
    LET stripped == strip(user_input)
    IN  IF stripped = <<>> THEN "EMPTY"
        ELSE IF startswith(stripped, <<"#">>) THEN "COMMENT"
        ELSE IF _is_shell_command(stripped, os) THEN "SHELL_COMMAND"
        ELSE IF startswith(lower(stripped), AI_PREFIX) THEN "AI_REQUEST"
        ELSE "NATURAL_LANGUAGE"

classify(user_input, os) ==
    LET stripped == strip(user_input)
    IN  IF stripped = <<>> THEN "EMPTY"
        ELSE IF startswith(stripped, <<"#">>) THEN "COMMENT"
        ELSE IF startswith(lower(stripped), AI_PREFIX) THEN "AI_REQUEST"
        ELSE IF _is_shell_command(stripped, os) THEN "SHELL_COMMAND"
        ELSE "NATURAL_LANGUAGE"

\* a faulty extraction: the remainder keeps the whitespace after the prefix
extract_ai_request_untrimmed(user_input) ==
    IF startswith(lower(strip(user_input)), AI_PREFIX)
    THEN SubSeq(strip(user_input), Len(AI_PREFIX) + 1, Len(strip(user_input)))
    ELSE user_input

extract_ai_request(user_input) ==
    IF startswith(lower(strip(user_input)), AI_PREFIX)
    THEN strip(SubSeq(strip(user_input), Len(AI_PREFIX) + 1, Len(strip(user_input))))
    ELSE user_input

---------------------------------------------------------------------------
(* lib/shell/input_buffer.py: the command text of InputBuffer.process_input *)

\* re.findall(r'@([^\s]+)', text): the references, scanned left to right
RECURSIVE file_refs_from(_, _)
file_refs_from(t, acc) ==
    IF t = <<>> THEN acc
    ELSE IF Head(t) = "@" /\ Len(t) >= 2 /\ ~IsSpace(t[2])
         THEN LET rest == Tail(t)
                  stop == IF \E i \in 1..Len(rest) : IsSpace(rest[i])
                          THEN (CHOOSE i \in 1..Len(rest) :
                                  IsSpace(rest[i]) /\ \A j \in 1..(i - 1) : ~IsSpace(rest[j])) - 1
                          ELSE Len(rest)
              IN  file_refs_from(SubSeq(rest, stop + 1, Len(rest)), Append(acc, SubSeq(rest, 1, stop)))
         ELSE file_refs_from(Tail(t), acc)

file_refs(text) == file_refs_from(text, <<>>)

RECURSIVE remove_refs(_, _)
remove_refs(text, refs) ==
    IF refs = <<>> THEN text
    ELSE remove_refs(replace(text, <<"@">> \o Head(refs), <<>>), Tail(refs))

clean_command(text) ==
    strip(replace(replace(remove_refs(text, file_refs(text)), <<"{","c","l","i","p","b","o","a","r","d","}">>, <<>>), <<"{","c","l","i","p","}">>, <<>>))

---------------------------------------------------------------------------
(* The file system and process environment the session runs in: the        *)
(* directories and files that exist, and the environment at start-up.      *)
(* Paths follow posixpath.                                                 *)

Dirs == { <<"/">>, <<"/","t","m","p">>, <<"/","h","o","m","e">>, <<"/","r","o","o","t">> }

\* the directories the user of the session has no permission to enter
Locked == { <<"/","r","o","o","t">> }

Files == { <<"/","t","m","p","/","a",".","p","y">>, <<"/","h","o","m","e","/","k",".","p","e","m">> }

InitialCwd == <<"/","h","o","m","e">>

InitialEnv == << << <<"H","O","M","E">>, <<"/","h","o","m","e">> >> >>

isdir(path) == path \in Dirs

\* os.chdir(path), and the start of a process in path, raise PermissionError
permission_denied(path) == path \in Locked

isfile(path) == path \in Files

isabs(path) == startswith(path, <<"/">>)

\* os.path.join(a, b)
path_join(a, b) ==
    IF startswith(b, <<"/">>) THEN b
    ELSE IF a = <<>> \/ endswith(a, <<"/">>) THEN a \o b
    ELSE a \o <<"/">> \o b

RECURSIVE norm_comps(_, _, _)
norm_comps(comps, initial_slashes, new_comps) ==
    IF comps = <<>> THEN new_comps
    ELSE LET comp == Head(comps) IN
         IF comp = <<>> \/ comp = <<".">>
         THEN norm_comps(Tail(comps), initial_slashes, new_comps)
         ELSE IF \/ comp # <<".",".">>
                 \/ (initial_slashes = 0 /\ new_comps = <<>>)
                 \/ (new_comps # <<>> /\ new_comps[Len(new_comps)] = <<".",".">>)
         THEN norm_comps(Tail(comps), initial_slashes, Append(new_comps, comp))
         ELSE IF new_comps # <<>>
         THEN norm_comps(Tail(comps), initial_slashes, SubSeq(new_comps, 1, Len(new_comps) - 1))
         ELSE norm_comps(Tail(comps), initial_slashes, new_comps)

\* os.path.normpath(path)
normpath(path) ==
    IF path = <<>> THEN <<".">>
    ELSE LET initial_slashes ==
                 IF ~startswith(path, <<"/">>) THEN 0
                 ELSE IF startswith(path, <<"/","/">>) /\ ~startswith(path, <<"/","/","/">>) THEN 2
                 ELSE 1
             joined == join(<<"/">>, norm_comps(split_on(path, <<"/">>), initial_slashes, <<>>))
             result == (IF initial_slashes = 2 THEN <<"/","/">>
                        ELSE IF initial_slashes = 1 THEN <<"/">> ELSE <<>>) \o joined
         IN  IF result = <<>> THEN <<".">> ELSE result

\* dict lookups and updates on an insertion-ordered mapping of (key, value) pairs
env_has(env, key) == \E i \in 1..Len(env) : env[i][1] = key

env_get(env, key) == env[CHOOSE i \in 1..Len(env) : env[i][1] = key][2]

env_set(env, key, value) ==
    IF env_has(env, key)
    THEN [i \in 1..Len(env) |-> IF env[i][1] = key THEN <<key, value>> ELSE env[i]]
    ELSE Append(env, <<key, value>>)

RECURSIVE rstrip_slash(_)
rstrip_slash(h) ==
    IF h # <<>> /\ h[Len(h)] = "/" THEN rstrip_slash(SubSeq(h, 1, Len(h) - 1)) ELSE h

\* os.path.expanduser(path): "~" and "~/..." take HOME; "~name" of no known user is kept
expanduser(path, env) ==
    IF ~startswith(path, <<"~">>) THEN path
    ELSE LET i == IF \E j \in 1..Len(path) : path[j] = "/"
                  THEN CHOOSE j \in 1..Len(path) : path[j] = "/" /\ \A k \in 1..(j - 1) : path[k] # "/"
                  ELSE Len(path) + 1
         IN  IF i # 2 \/ ~env_has(env, <<"H","O","M","E">>) THEN path
             ELSE LET expanded == rstrip_slash(env_get(env, <<"H","O","M","E">>)) \o SubSeq(path, i, Len(path))
                  IN  IF expanded = <<>> THEN <<"/">> ELSE expanded

---------------------------------------------------------------------------
(* shlex.split(command): POSIX rules, split on whitespace only.            *)
(* st is the lexer state: "ws" between tokens, "word" inside one, "sq" or  *)
(* "dq" inside quotes, "esc" after a backslash (back is the state the      *)
(* escape returns to).  An open quote or a trailing backslash at the end   *)
(* of the text raises ValueError.                                          *)

RECURSIVE shlex_scan(_, _, _, _, _, _)
shlex_scan(t, st, back, token, quoted, acc) ==
    IF t = <<>>
    THEN IF st \in {"sq", "dq", "esc"} THEN [ok |-> FALSE, parts |-> <<>>]
         ELSE [ok |-> TRUE,
               parts |-> IF st = "word" /\ (token # <<>> \/ quoted) THEN Append(acc, token) ELSE acc]
    ELSE LET c == Head(t)
             r == Tail(t)
         IN  CASE st = "ws" ->
                    IF IsSpace(c) THEN shlex_scan(r, "ws", back, <<>>, FALSE, acc)
                    ELSE IF c = "\\" THEN shlex_scan(r, "esc", "word", <<>>, FALSE, acc)
                    ELSE IF c = "'" THEN shlex_scan(r, "sq", back, <<>>, TRUE, acc)
                    ELSE IF c = "\"" THEN shlex_scan(r, "dq", back, <<>>, TRUE, acc)
                    ELSE shlex_scan(r, "word", back, <<c>>, FALSE, acc)
               [] st = "word" ->
                    IF IsSpace(c)
                    THEN shlex_scan(r, "ws", back, <<>>, FALSE,
                                    IF token # <<>> \/ quoted THEN Append(acc, token) ELSE acc)
                    ELSE IF c = "\\" THEN shlex_scan(r, "esc", "word", token, quoted, acc)
                    ELSE IF c = "'" THEN shlex_scan(r, "sq", back, token, TRUE, acc)
                    ELSE IF c = "\"" THEN shlex_scan(r, "dq", back, token, TRUE, acc)
                    ELSE shlex_scan(r, "word", back, Append(token, c), quoted, acc)
               [] st = "sq" ->
                    IF c = "'" THEN shlex_scan(r, "word", back, token, TRUE, acc)
                    ELSE shlex_scan(r, "sq", back, Append(token, c), TRUE, acc)
               [] st = "dq" ->
                    IF c = "\"" THEN shlex_scan(r, "word", back, token, TRUE, acc)
                    ELSE IF c = "\\" THEN shlex_scan(r, "esc", "dq", token, TRUE, acc)
                    ELSE shlex_scan(r, "dq", back, Append(token, c), TRUE, acc)
               [] st = "esc" ->
                    IF back = "dq" /\ c # "\\" /\ c # "\""
                    THEN shlex_scan(r, back, back, token \o <<"\\", c>>, quoted, acc)
                    ELSE shlex_scan(r, back, back, Append(token, c), quoted, acc)

shlex_split(command) == shlex_scan(command, "ws", "word", <<>>, FALSE, <<>>)

---------------------------------------------------------------------------
(* lib/shell/state.py: ShellState as constructed.  The aliases field is    *)
(* never read or written and is left out.                                  *)

ShellState ==
    [ cwd |-> InitialCwd,
      env |-> InitialEnv,
      mode |-> <<"n","l">>,
      last_exit_code |-> 0,
      history |-> <<>>,
      last_command |-> <<>>,
      last_stdout |-> <<>>,
      last_stderr |-> <<>>,
      last_returncode |-> 0,
      pending_commands |-> <<>>,
      prompt_prefill |-> <<>> ]

add_to_history(st, command) == [st EXCEPT !.history = Append(@, command)]

---------------------------------------------------------------------------
(* lib/shell/executor.py: ShellExecutor.                                   *)

CommandResult(returncode, stdout, stderr, command) ==
    [returncode |-> returncode, stdout |-> stdout, stderr |-> stderr, command |-> command]

NoResult == CommandResult(0, <<>>, <<>>, <<>>)

\* what subprocess.run can do with a command: complete with some exit code and
\* output, exceed the timeout, or fail to start
ProcessOutcomes ==
    { [kind |-> "completed", returncode |-> 0, stdout |-> <<"o","u","t","\n">>, stderr |-> <<>>],
      [kind |-> "completed", returncode |-> 2, stdout |-> <<>>, stderr |-> <<"e","r","r","\n">>],
      [kind |-> "timeout", returncode |-> 0, stdout |-> <<>>, stderr |-> <<>>],
      [kind |-> "error", returncode |-> 0, stdout |-> <<>>, stderr |-> <<"s","p","a","w","n"," ","f","a","i","l","e","d">>] }

TimeoutReturnCode == 124

shell_interpreters == { <<"c","m","d">>, <<"b","a","s","h">>, <<"s","h">>, <<"p","o","w","e","r","s","h","e","l","l">>, <<"p","w","s","h">>, <<"z","s","h">> }

builtins == { <<"c","d">>, <<"e","x","p","o","r","t">>, <<"p","w","d">>, <<"e","x","i","t">>, <<"m","o","d","e">> }

_record_result(st, result) ==
    [st EXCEPT !.last_command = result.command,
               !.last_stdout = result.stdout,
               !.last_stderr = result.stderr,
               !.last_returncode = result.returncode]

\* the four fields that describe the last execution
last_x(st) == <<st.last_command, st.last_stdout, st.last_stderr, st.last_returncode>>

\* the same four values, taken from a result
result_x(result) == <<result.command, result.stdout, result.stderr, result.returncode>>

\* the stripped texts execute returns on before it runs anything: nothing,
\* a comment, the bare name of a shell interpreter
not_executed(command) ==
    \/ command = <<>>
    \/ startswith(command, <<"#">>)
    \/ lower(command) \in shell_interpreters

\* what a call of execute or of a built-in gives back: the state it leaves, the
\* result it returns, and the exception it raises instead, if any; process tells
\* what the external process did, if one was started
Returned(st, result) ==
    [state |-> st, result |-> result, raised |-> "none", code |-> 0, spawned |-> FALSE,
     process |-> "none"]

Raised(st, exception, code) ==
    [state |-> st, result |-> NoResult, raised |-> exception, code |-> code, spawned |-> FALSE,
     process |-> "none"]

\* the path cd is asked for, made absolute against the working directory
cd_absolute(st, target) == IF ~isabs(target) THEN path_join(st.cwd, target) ELSE target

\* the change of directory, once the target is normalised
cd_to(st, args, target) ==
    IF isdir(target) /\ permission_denied(target)
    THEN Raised([st EXCEPT !.cwd = target], "PermissionError", 0)
    ELSE IF isdir(target)
    THEN Returned([st EXCEPT !.cwd = target],
                  CommandResult(0, <<>>, <<>>, <<"c","d"," ">> \o (IF args # <<>> THEN args[1] ELSE <<"~">>)))
    ELSE Returned(st, CommandResult(1, <<>>, <<"c","d",":"," ">> \o target \o <<":"," ","N","o"," ","s","u","c","h"," ","d","i","r","e","c","t","o","r","y","\n">>,
                                    <<"c","d"," ">> \o (IF args # <<>> THEN args[1] ELSE <<"~">>)))

_builtin_cd(st, args) ==
    cd_to(st, args,
          normpath(cd_absolute(st,
              expanduser(IF args # <<>> THEN args[1] ELSE expanduser(<<"~">>, st.env), st.env))))

_builtin_pwd(st, args) ==
    Returned(st, CommandResult(0, st.cwd \o <<"\n">>, <<>>, <<"p","w","d">>))

RECURSIVE export_args(_, _)
export_args(env, args) ==
    IF args = <<>> THEN env
    ELSE LET arg == Head(args) IN
         IF contains(arg, <<"=">>)
         THEN LET i == CHOOSE j \in 1..Len(arg) : arg[j] = "=" /\ \A k \in 1..(j - 1) : arg[k] # "="
              IN  export_args(env_set(env, SubSeq(arg, 1, i - 1), SubSeq(arg, i + 1, Len(arg))), Tail(args))
         ELSE export_args(env, Tail(args))

_builtin_export(st, args) ==
    IF args = <<>>
    THEN Returned(st, CommandResult(0,
             join(<<"\n">>, [i \in 1..Len(st.env) |-> st.env[i][1] \o <<"=">> \o st.env[i][2]]) \o <<"\n">>,
             <<>>, <<"e","x","p","o","r","t">>))
    ELSE Returned([st EXCEPT !.env = export_args(@, args)],
                  CommandResult(0, <<>>, <<>>, <<"e","x","p","o","r","t"," ">> \o join(<<" ">>, args)))

_builtin_exit(st, args) ==
    Raised(st, "SystemExit", IF args # <<>> /\ isdigit(args[1]) THEN int_of(args[1], 0) ELSE 0)

modes == { <<"s","h","e","l","l">>, <<"n","l">>, <<"a","i">> }

\* the branch of mode that is given a mode name, lower-cased
mode_switch(st, mode) ==
    IF mode \in modes
    THEN Returned([st EXCEPT !.mode = mode],
                  CommandResult(0, <<"S","w","i","t","c","h","e","d"," ","t","o"," ">> \o mode \o <<" ","m","o","d","e","\n">>, <<>>, <<"m","o","d","e"," ">> \o mode))
    ELSE Returned(st, CommandResult(1, <<>>,
                  <<"I","n","v","a","l","i","d"," ","m","o","d","e",":"," ">> \o mode \o <<"."," ","U","s","e",":"," ","s","h","e","l","l",","," ","n","l",","," ","o","r"," ","a","i","\n">>, <<"m","o","d","e"," ">> \o mode))

_builtin_mode(st, args) ==
    IF args = <<>>
    THEN Returned(st, CommandResult(0,
             <<"C","u","r","r","e","n","t"," ","m","o","d","e",":"," ">> \o st.mode \o <<"\n","A","v","a","i","l","a","b","l","e",":"," ","s","h","e","l","l",","," ","n","l",","," ","a","i","\n">>, <<>>, <<"m","o","d","e">>))
    ELSE mode_switch(st, lower(args[1]))

run_builtin(st, name, args) ==
    CASE name = <<"c","d">> -> _builtin_cd(st, args)
      [] name = <<"e","x","p","o","r","t">> -> _builtin_export(st, args)
      [] name = <<"p","w","d">> -> _builtin_pwd(st, args)
      [] name = <<"e","x","i","t">> -> _builtin_exit(st, args)
      [] name = <<"m","o","d","e">> -> _builtin_mode(st, args)

\* a faulty external branch: the timeout is not caught
run_external_timeout_escapes(st, command, outcome) ==
    IF outcome.kind = "timeout"
    THEN [Raised(st, "TimeoutExpired", 0) EXCEPT !.spawned = TRUE, !.process = "timeout"]
    ELSE [Returned(_record_result(st, CommandResult(outcome.returncode, outcome.stdout, outcome.stderr, command)),
                   CommandResult(outcome.returncode, outcome.stdout, outcome.stderr, command))
            EXCEPT !.spawned = TRUE, !.process = outcome.kind]

\* the external branch of execute: subprocess.run and its three except clauses
run_external(st, command, outcome) ==
    LET result ==
            IF permission_denied(st.cwd)
            THEN CommandResult(1, <<>>, <<"E","x","e","c","u","t","i","o","n"," ","e","r","r","o","r",":"," ","P","e","r","m","i","s","s","i","o","n"," ","d","e","n","i","e","d">>, command)
            ELSE
            CASE outcome.kind = "completed" ->
                   CommandResult(outcome.returncode, outcome.stdout, outcome.stderr, command)
              [] outcome.kind = "timeout" ->
                   CommandResult(TimeoutReturnCode, <<>>, <<"C","o","m","m","a","n","d"," ","t","i","m","e","d"," ","o","u","t"," ","a","f","t","e","r"," ","5"," ","m","i","n","u","t","e","s">>, command)
              [] outcome.kind = "error" ->
                   CommandResult(1, <<>>, <<"E","x","e","c","u","t","i","o","n"," ","e","r","r","o","r",":"," ">> \o outcome.stderr, command)
    IN  [Returned(_record_result(st, result), result)
           EXCEPT !.spawned = TRUE,
                  !.process = IF permission_denied(st.cwd) THEN "error" ELSE outcome.kind]

\* the exception shlex.split raises out of execute on an open quote or a
\* trailing backslash: the call is outside the try block of execute
tokenise_failure(st) == Raised(st, "ValueError", 0)

\* the call of a built-in: what it returns is recorded and returned
record_builtin(r) ==
    IF r.raised # "none" THEN r
    ELSE [r EXCEPT !.state = _record_result(r.state, r.result)]

\* the tokenised command goes to a built-in or to a process
dispatch(st, command, cmd_parts, outcome) ==
    IF cmd_parts # <<>> /\ cmd_parts[1] \in builtins
    THEN record_builtin(run_builtin(st, cmd_parts[1], Tail(cmd_parts)))
    ELSE run_external(st, command, outcome)

\* cmd_parts = shlex.split(command)
tokenised(st, command, lexed, outcome) ==
    IF ~lexed.ok THEN tokenise_failure(st)
    ELSE dispatch(st, command, lexed.parts, outcome)

\* a faulty execute: the results of the early returns are recorded as well
execute_stripped_records(st, command, outcome) ==
    IF command = <<>> \/ startswith(command, <<"#">>) \/ lower(command) \in shell_interpreters
    THEN Returned(_record_result(st, CommandResult(0, <<>>, <<>>, command)),
                  CommandResult(0, <<>>, <<>>, command))
    ELSE tokenised(st, command, shlex_split(command), outcome)

\* execute from the second statement on: command is the stripped text
execute_stripped(st, command, outcome) ==
    IF command = <<>> \/ startswith(command, <<"#">>)
    THEN Returned(st, CommandResult(0, <<>>, <<>>, command))
    ELSE IF lower(command) \in shell_interpreters
    THEN Returned(st, CommandResult(0, <<>>, <<>>, command))
    ELSE tokenised(st, command, shlex_split(command), outcome)

execute(st, text, outcome) == execute_stripped(st, strip(text), outcome)

---------------------------------------------------------------------------
(* lib/shell/input_buffer.py: the context InputBuffer.process_input        *)
(* collects.  The session reads its lines from a terminal, so the stdin    *)
(* branch (sys.stdin is not a tty) is not taken.                           *)

\* the files open() refuses to the user of the session
Unreadable == { <<"/","h","o","m","e","/","k",".","p","e","m">> }

\* the files in the order glob lists them
FileList == << <<"/","h","o","m","e","/","k",".","p","e","m">>, <<"/","t","m","p","/","a",".","p","y">> >>

\* what reading a file gives
file_content(path) == <<"x"," ","="," ","1">>

\* what the clipboard holds
clipboard_content == <<"c","l","i","p">>

\* the components of a normalised absolute path
path_comps(path) == SelectSeq(split_on(path, <<"/">>), LAMBDA comp : comp # <<>>)

RECURSIVE common_comps(_, _)
common_comps(a, b) ==
    IF a = <<>> \/ b = <<>> \/ Head(a) # Head(b) THEN 0
    ELSE 1 + common_comps(Tail(a), Tail(b))

\* os.path.relpath(path, start), both absolute
relpath(path, start) ==
    LET p == path_comps(normpath(path))
        s == path_comps(normpath(start))
        i == common_comps(s, p)
        rel == [k \in 1..(Len(s) - i) |-> <<".",".">>] \o SubSeq(p, i + 1, Len(p))
    IN  IF rel = <<>> THEN <<".">> ELSE join(<<"/">>, rel)

\* the body of _read_file once the path is absolute; the operating system
\* resolves the dots of the path
read_absolute(st, path) ==
    IF ~isfile(normpath(path))
    THEN <<"#"," ","E","r","r","o","r",":"," ","F","i","l","e"," ","n","o","t"," ","f","o","u","n","d",":"," ">> \o path \o <<"\n">>
    ELSE IF normpath(path) \in Unreadable
    THEN <<"#"," ","E","r","r","o","r"," ","r","e","a","d","i","n","g"," ">> \o path \o <<":"," ","P","e","r","m","i","s","s","i","o","n"," ","d","e","n","i","e","d","\n">>
    ELSE <<"#"," ","F","i","l","e",":"," ">> \o relpath(path, st.cwd) \o <<"\n">> \o file_content(path) \o <<"\n">>

\* a faulty reader: a missing file gives no context at all
_read_file_silent(st, path) ==
    IF ~isfile(normpath(IF ~isabs(path) THEN path_join(st.cwd, path) ELSE path))
    THEN <<>>
    ELSE read_absolute(st, IF ~isabs(path) THEN path_join(st.cwd, path) ELSE path)

_read_file(st, path) ==
    read_absolute(st, IF ~isabs(path) THEN path_join(st.cwd, path) ELSE path)

\* glob.glob(ref, recursive=True) for a pattern with one star in its last
\* component: the files of the working directory it matches, named as the
\* pattern names them
star_at(ref) == CHOOSE i \in 1..Len(ref) : ref[i] = "*"

glob_matches(st, ref, file) ==
    LET pattern == path_join(st.cwd, ref)
        i == star_at(pattern)
        head == SubSeq(pattern, 1, i - 1)
        tail == SubSeq(pattern, i + 1, Len(pattern))
    IN  /\ ~contains(tail, <<"*">>) /\ ~contains(tail, <<"/">>)
        /\ Len(file) >= Len(head) + Len(tail)
        /\ startswith(file, head) /\ endswith(file, tail)
        /\ ~contains(SubSeq(file, Len(head) + 1, Len(file) - Len(tail)), <<"/">>)

glob(st, ref) ==
    LET found == SelectSeq(FileList, LAMBDA file : glob_matches(st, ref, file))
    IN  [k \in 1..Len(found) |-> IF isabs(ref) THEN found[k] ELSE relpath(found[k], st.cwd)]

\* the loop over the references: every file read that gave a non-empty text
\* adds that text to the context
RECURSIVE read_refs(_, _, _)
read_refs(st, paths, context) ==
    IF paths = <<>> THEN context
    ELSE read_refs(st, Tail(paths),
                   IF _read_file(st, Head(paths)) # <<>>
                   THEN Append(context, _read_file(st, Head(paths)))
                   ELSE context)

\* the paths the references stand for: a reference with a star is a pattern
RECURSIVE ref_paths(_, _)
ref_paths(st, refs) ==
    IF refs = <<>> THEN <<>>
    ELSE (IF contains(Head(refs), <<"*">>) THEN glob(st, Head(refs)) ELSE <<Head(refs)>>)
         \o ref_paths(st, Tail(refs))

clipboard_context(text) ==
    IF (contains(text, <<"{","c","l","i","p","b","o","a","r","d","}">>) \/ contains(text, <<"{","c","l","i","p","}">>)) /\ clipboard_content # <<>>
    THEN << <<"#"," ","C","l","i","p","b","o","a","r","d",":","\n">> \o clipboard_content >>
    ELSE <<>>

process_input(st, text) ==
    [ command |-> clean_command(text),
      context |-> read_refs(st, ref_paths(st, file_refs(text)), <<>>) \o clipboard_context(text) ]

---------------------------------------------------------------------------
(* lib/shell/translator.py: what NLTranslator.translate returns for a      *)
(* reply of the language model.                                            *)

\* the for ... else over the pieces between code fences
RECURSIVE first_shell_block(_)
first_shell_block(parts) ==
    IF parts = <<>> THEN [found |-> FALSE, text |-> <<>>]
    ELSE IF startswith(strip(Head(parts)), <<"b","a","s","h">>) \/ startswith(strip(Head(parts)), <<"s","h">>)
         THEN [found |-> TRUE,
               text |-> strip(replace(replace(Head(parts), <<"b","a","s","h">>, <<>>), <<"s","h">>, <<>>))]
         ELSE first_shell_block(Tail(parts))

_clean_output(text) ==
    IF contains(text, <<backtick,backtick,backtick>>)
    THEN LET parts == split_on(text, <<backtick,backtick,backtick>>)
             block == first_shell_block(parts)
         IN  IF block.found THEN strip(block.text)
             ELSE strip(IF Len(parts) > 1 THEN parts[2] ELSE text)
    ELSE strip(text)

\* translate: the content of the reply, stripped and cleaned
translate(content) == _clean_output(strip(content))

---------------------------------------------------------------------------
(* webwright/main.py: WebrightShell.                                       *)

safe_prefixes ==
    { <<"l","s">>, <<"p","w","d">>, <<"c","d">>, <<"w","h","o","a","m","i">>, <<"d","a","t","e">>, <<"c","a","t">>, <<"e","c","h","o">>,
      <<"g","i","t"," ","s","t","a","t","u","s">>, <<"g","i","t"," ","d","i","f","f">>, <<"h","e","a","d">>, <<"t","a","i","l">>, <<"d","i","r">> }

risky_keywords ==
    { <<"r","m">>, <<"m","v">>, <<"c","h","m","o","d">>, <<"c","h","o","w","n">>, <<"d","o","c","k","e","r">>, <<"k","u","b","e","c","t","l">>,
      <<"g","i","t"," ","p","u","s","h">>, <<"g","i","t"," ","c","o","m","m","i","t">>, <<"p","i","p"," ","i","n","s","t","a","l","l">>, <<"n","p","m"," ","i","n","s","t","a","l","l">>,
      <<"a","p","t">>, <<"b","r","e","w">>, <<"s","y","s","t","e","m","c","t","l">>, <<"s","h","u","t","d","o","w","n">>, <<"r","e","b","o","o","t">> }

\* a faulty predicate: the risky keywords are looked for first
_should_autorun_risky_first(command, cwd) ==
    \E command_lower \in {lower(command)} :
      IF \E keyword \in risky_keywords : contains(command_lower, keyword) THEN FALSE
      ELSE \E prefix \in safe_prefixes : startswith(command_lower, prefix)

_should_autorun(command, cwd) ==
    \E command_lower \in {lower(command)} :
      IF \E prefix \in safe_prefixes : startswith(command_lower, prefix) THEN TRUE
      ELSE IF \E keyword \in risky_keywords : contains(command_lower, keyword) THEN FALSE
      ELSE IF startswith(command_lower, <<"p","y","t","h","o","n"," ">>) \/ startswith(command_lower, <<"p","y"," ">>)
      THEN \E lexed \in {shlex_split(command)} :
             \E parts \in {IF lexed.ok THEN lexed.parts ELSE split(command)} :
               /\ Len(parts) >= 2
               /\ \E script_path \in {IF ~isabs(parts[2]) THEN path_join(cwd, parts[2]) ELSE parts[2]} :
                    isfile(script_path) /\ endswith(script_path, <<".","p","y">>)
      ELSE FALSE

rerun_phrases ==
    { <<"r","u","n"," ","i","t">>, <<"r","u","n"," ","t","h","a","t">>, <<"e","x","e","c","u","t","e"," ","i","t">>, <<"d","o"," ","i","t">>, <<"g","o"," ","a","h","e","a","d">>,
      <<"p","l","e","a","s","e"," ","r","u","n"," ","i","t">>, <<"r","u","n"," ","t","h","e"," ","c","o","m","m","a","n","d">>, <<"r","u","n"," ","t","h","o","s","e">> }

\* a faulty removal: the last element equal to x is dropped
list_remove_last(s, x) ==
    IF \A i \in 1..Len(s) : s[i] # x THEN s
    ELSE LET k == CHOOSE i \in 1..Len(s) : s[i] = x /\ \A j \in (i + 1)..Len(s) : s[j] # x
         IN  SubSeq(s, 1, k - 1) \o SubSeq(s, k + 1, Len(s))

\* list.remove(x): drops the first element equal to x
RECURSIVE list_remove(_, _)
list_remove(s, x) ==
    IF s = <<>> THEN s
    ELSE IF Head(s) = x THEN Tail(s) ELSE <<Head(s)>> \o list_remove(Tail(s), x)

\* One pass of the loop body, as it runs: the session state so far, the calls made
\* (commands handed to the executor and the queue as it was at each of these calls,
\* commands the autorun predicate was asked about, whether the translator was called, what each call of execute that
\* returned gave back and what its process did), the exception now propagating
\* (raised), the exception first raised (fault) and the except clause that caught
\* it (error).
Run0(st) ==
    [ state |-> st, executed |-> <<>>, consulted |-> <<>>, translated |-> FALSE,
      spawned |-> 0, raised |-> "none", fault |-> "none", error |-> "none", code |-> 0,
      returncode |-> 0, triaged |-> FALSE, triage_queue |-> <<>>, staged |-> FALSE,
      results |-> <<>>, queues |-> <<>> ]

\* what a call of execute leaves in the pass: r is what the call gave back
returned_from_execute(R, command, r) ==
    [R EXCEPT !.state = r.state,
              !.executed = Append(@, command),
              !.queues = Append(@, R.state.pending_commands),
              !.spawned = IF r.spawned THEN @ + 1 ELSE @,
              !.raised = r.raised,
              !.fault = r.raised,
              !.code = r.code,
              !.returncode = r.result.returncode,
              !.results = IF r.raised = "none"
                          THEN Append(@, [result |-> r.result, process |-> r.process])
                          ELSE @]

\* result = self.executor.execute(command); outcomes[n] is what the n-th external
\* process started in this pass does
call_execute(R, command, outcomes) ==
    returned_from_execute(R, command, execute(R.state, command, outcomes[R.spawned + 1]))

\* the statements after a call of execute that returned: the exit code is kept and
\* the command leaves the queue
after_execute(R, command) ==
    [R EXCEPT !.state.last_exit_code = R.returncode,
              !.state.pending_commands = list_remove(@, command)]

\* a faulty stage: the command offered to the user also leaves the queue
stage_and_dequeue(R, command) ==
    IF R.state.prompt_prefill = <<>>
    THEN [R EXCEPT !.state.prompt_prefill = command,
                   !.state.pending_commands = list_remove(@, command),
                   !.staged = TRUE]
    ELSE R

\* the else branch of the triage loop: the command is offered as the next
\* default, unless one is already set
\* a faulty staging: the staged command is written into last_command
stage_records(R, command) ==
    IF R.state.prompt_prefill = <<>>
    THEN [R EXCEPT !.state.prompt_prefill = command, !.state.last_command = command,
                   !.staged = TRUE]
    ELSE R

stage(R, command) ==
    IF R.state.prompt_prefill = <<>>
    THEN [R EXCEPT !.state.prompt_prefill = command, !.staged = TRUE]
    ELSE R

RECURSIVE triage_loop(_, _, _)

\* the autorun predicate was asked about the command
consult(R, command, allowed) ==
    [R EXCEPT !.consulted = Append(@, [command |-> command, allowed |-> allowed])]

\* the allowed command was handed to the executor: R1 is the pass after the call
triage_executed(R1, command, rest, outcomes) ==
    IF R1.raised # "none" THEN R1
    ELSE triage_loop(after_execute(R1, command), rest, outcomes)

\* a faulty turn: the command is executed whatever the autorun predicate answers
triage_turn_runs_denied(R, command, allowed, rest, outcomes) ==
    triage_executed(call_execute(consult(R, command, allowed), command, outcomes),
                    command, rest, outcomes)

\* one turn of the loop, given the answer of the autorun predicate
triage_turn(R, command, allowed, rest, outcomes) ==
    IF allowed
    THEN triage_executed(call_execute(consult(R, command, allowed), command, outcomes),
                         command, rest, outcomes)
    ELSE stage(consult(R, command, allowed), command)

\* the for loop of _execute_translated_commands over a copy of the queue
triage_loop(R, snapshot, outcomes) ==
    IF snapshot = <<>> THEN R
    ELSE triage_turn(R, Head(snapshot), _should_autorun(Head(snapshot), R.state.cwd),
                     Tail(snapshot), outcomes)

_execute_translated_commands(R, outcomes) ==
    triage_loop([R EXCEPT !.triaged = TRUE, !.triage_queue = R.state.pending_commands],
                R.state.pending_commands, outcomes)

RECURSIVE run_pending_loop(_, _, _)

\* the queued command was handed to the executor: R1 is the pass after the call
pending_executed(R1, command, rest, outcomes) ==
    IF R1.raised # "none" THEN R1
    ELSE run_pending_loop(after_execute(R1, command), rest, outcomes)

\* the for loop of _run_pending_commands over a copy of the queue
run_pending_loop(R, snapshot, outcomes) ==
    IF snapshot = <<>> THEN R
    ELSE pending_executed(call_execute(R, Head(snapshot), outcomes),
                          Head(snapshot), Tail(snapshot), outcomes)

_run_pending_commands(R, outcomes) ==
    IF R.state.pending_commands = <<>> THEN R
    ELSE run_pending_loop([R EXCEPT !.state.prompt_prefill = <<>>],
                          R.state.pending_commands, outcomes)

\* whether _handle_shortcut takes the request
is_shortcut(nl_request) == lower(strip(nl_request)) \in rerun_phrases

\* the lines of the translation that are commands
\* a faulty filter: the comment lines stay in the queue
actionable_with_comments(command) ==
    LET stripped == [i \in 1..Len(split_on(command, <<"\n">>)) |-> strip(split_on(command, <<"\n">>)[i])]
        keep(line) == line # <<>>
    IN  SelectSeq(stripped, keep)

actionable(command) ==
    LET stripped == [i \in 1..Len(split_on(command, <<"\n">>)) |-> strip(split_on(command, <<"\n">>)[i])]
        keep(line) == line # <<>> /\ ~startswith(line, <<"#">>)
    IN  SelectSeq(stripped, keep)

\* the except Exception clause of _handle_nl_translation
catch_translation_error(R) ==
    IF R.raised \in {"ValueError", "TranslatorError"}
    THEN [R EXCEPT !.raised = "none", !.error = "translation"]
    ELSE R

\* a faulty handler: the queue is emptied before the translator is called
_handle_nl_translation_resets(R, reply, outcomes) ==
    IF reply.fails
    THEN catch_translation_error([R EXCEPT !.state.pending_commands = <<>>,
                                           !.translated = TRUE,
                                           !.raised = "TranslatorError", !.fault = "TranslatorError"])
    ELSE catch_translation_error(_execute_translated_commands(
             [R EXCEPT !.translated = TRUE,
                       !.state.pending_commands = actionable(translate(reply.content))],
             outcomes))

\* reply is what the language model does: it fails, or it answers with a text
_handle_nl_translation(R, reply, outcomes) ==
    IF reply.fails
    THEN catch_translation_error([R EXCEPT !.translated = TRUE,
                                           !.raised = "TranslatorError", !.fault = "TranslatorError"])
    ELSE catch_translation_error(_execute_translated_commands(
             [R EXCEPT !.translated = TRUE,
                       !.state.pending_commands = actionable(translate(reply.content))],
             outcomes))

\* if more commands remain after the pop, triage goes on with them
resume_pending(R, pending_matched, outcomes) ==
    IF pending_matched /\ R.state.pending_commands # <<>>
    THEN _execute_translated_commands(R, outcomes)
    ELSE R

\* the command that matched the front of the queue leaves it
pop_pending(R, pending_matched, outcomes) ==
    resume_pending(IF pending_matched
                   THEN [R EXCEPT !.state.pending_commands = Tail(@)]
                   ELSE R,
                   pending_matched, outcomes)

\* the statements of the SHELL_COMMAND branch after the call of execute
after_shell_command(R1, processed_input, outcomes) ==
    IF R1.raised # "none" THEN R1
    ELSE pop_pending([R1 EXCEPT !.state.last_exit_code = R1.returncode],
                     /\ R1.state.pending_commands # <<>>
                     /\ processed_input = R1.state.pending_commands[1],
                     outcomes)

\* the SHELL_COMMAND branch of run
handle_shell_command(R, processed_input, outcomes) ==
    after_shell_command(call_execute(R, processed_input, outcomes), processed_input, outcomes)

\* a faulty clause: end of input or an interrupt at the prompt ends the loop
after_prompt_exception_breaks == "done"

\* where the loop goes after the except (KeyboardInterrupt, EOFError) clause
after_prompt_exception == "prompt"

\* a faulty clause: an exception in the loop body ends the loop
after_loop_exception_breaks == "done"

\* where the loop goes after the except Exception clause
after_loop_exception == "prompt"

\* where the loop goes after the except SystemExit clause
after_system_exit == "done"

\* the branch taken by a line of the given type
branch_of(input_type, processed_input) ==
    IF input_type \in {"EMPTY", "COMMENT"} THEN "ignored"
    ELSE IF input_type = "SHELL_COMMAND" THEN "shell"
    ELSE IF input_type = "NATURAL_LANGUAGE"
    THEN (IF is_shortcut(processed_input) THEN "shortcut" ELSE "translate")
    ELSE "ai"

\* the branch taken by a line whose file references are taken out
kind_of_processed(processed_input, os) ==
    branch_of(classify(processed_input, os), processed_input)

\* which branch of the loop body a line takes
kind_of(user_input, os) ==
    IF strip(user_input) = <<>> THEN "blank"
    ELSE kind_of_processed(clean_command(user_input), os)

\* the loop body from the line the prompt returned to the end of the pass:
\* recorded tells whether the pass reaches add_to_history when nothing propagates
run_branch(R0, kind, user_input, reply, outcomes) ==
    CASE kind = "blank" -> [run |-> R0, kind |-> kind, recorded |-> FALSE]
      [] kind = "ignored" -> [run |-> R0, kind |-> kind, recorded |-> FALSE]
      [] kind = "shell" ->
           [run |-> handle_shell_command(R0, clean_command(user_input), outcomes),
            kind |-> kind, recorded |-> TRUE]
      [] kind = "shortcut" ->
           [run |-> _run_pending_commands(R0, outcomes), kind |-> kind, recorded |-> FALSE]
      [] kind = "translate" ->
           [run |-> _handle_nl_translation(R0, reply, outcomes), kind |-> kind, recorded |-> TRUE]
      [] kind = "ai" -> [run |-> R0, kind |-> kind, recorded |-> TRUE]

\* a faulty loop: in shell mode every line that is not blank goes to the executor
loop_body_gated_by_mode(st, user_input, os, reply, outcomes) ==
    run_branch(Run0([st EXCEPT !.prompt_prefill = <<>>]),
               IF st.mode = <<"s","h","e","l","l">> /\ kind_of(user_input, os) # "blank"
               THEN "shell" ELSE kind_of(user_input, os),
               user_input, reply, outcomes)

\* a faulty loop: the prefill is not cleared when the prompt returns a line
loop_body_keeps_prefill(st, user_input, os, reply, outcomes) ==
    run_branch(Run0(st), kind_of(user_input, os), user_input, reply, outcomes)

loop_body(st, user_input, os, reply, outcomes) ==
    run_branch(Run0([st EXCEPT !.prompt_prefill = <<>>]), kind_of(user_input, os),
               user_input, reply, outcomes)

\* the except clauses of the loop and the history entry of a pass that completed
end_of_pass(body, user_input) ==
    LET R == body.run IN
    IF R.raised = "SystemExit"
    THEN [state |-> R.state, pc |-> after_system_exit, error |-> R.error]
    ELSE IF R.raised # "none"
    THEN [state |-> R.state, pc |-> after_loop_exception, error |-> "loop"]
    ELSE [state |-> IF body.recorded THEN add_to_history(R.state, user_input) ELSE R.state,
          pc |-> "prompt", error |-> R.error]

---------------------------------------------------------------------------
(* The lines a user types and the replies the language model gives.        *)

Inputs ==
    { <<"l","s"," ","-","l","a">>, <<"r","m"," ","-","r","f"," ","/","t","m","p","/","x">>, <<"e","c","h","o"," ","\"","h","i">>, <<"b","r","e","w"," ","i","n","s","t","a","l","l"," ","x">>, <<"G","o"," ","a","h","e","a","d">>,
      <<"e","x","i","t">>, <<"a","i",":"," ","f","o","o">>, <<" "," ">>, <<"@","m",".","t","x","t">>, <<" ","@","k",".","p","e","m">> }

ModelContents ==
    { <<"#"," ","p","l","a","n","\n","l","s"," ","-","l","a","\n","r","m"," ","-","r","f"," ","/","t","m","p","/","x","\n","l","s"," ","-","l","a","\n","g","i","t"," ","p","u","s","h">>,
      <<"b","r","e","w"," ","i","n","s","t","a","l","l"," ","x">>,
      <<"e","c","h","o"," ","\"","h","i","\n","l","s"," ","-","l","a">>,
      <<backtick,backtick,backtick,"b","a","s","h","\n","e","x","i","t","\n",backtick,backtick,backtick>> }

NoReply == [fails |-> FALSE, content |-> <<>>]

Replies == {[fails |-> TRUE, content |-> <<>>]} \cup {[fails |-> FALSE, content |-> c] : c \in ModelContents}

\* How many external processes the pass starts.  What a process does changes
\* neither the commands that follow it nor the branch taken, so the count is that
\* of the pass run with any outcomes at all.
MostCalls(st, reply) == 1 + Len(st.pending_commands) + Len(reply.content)

\* What a process started in a pass of the session loop does: one outcome for
\* each path of run_external (it completed, it timed out, it could not be
\* started).  The loop branches on none of the fields of a result.
SessionOutcomes == { outcome \in ProcessOutcomes : outcome.kind = "completed" => outcome.returncode = 0 }

calls(st, user_input, os, reply) ==
    LET any == CHOOSE outcome \in SessionOutcomes : TRUE
    IN  loop_body(st, user_input, os, reply, [n \in 1..MostCalls(st, reply) |-> any]).run.spawned

---------------------------------------------------------------------------
(* The session loop.  state is the ShellState; pc is "prompt" while the    *)
(* loop waits at the prompt and "done" once it has ended; step records     *)
(* what the last pass of the loop did; os_name is os.name; call is the     *)
(* last call made on a component from outside the loop (none here).        *)

NoStep ==
    [ event |-> "start", input |-> <<>>, kind |-> "none", offered |-> <<>>,
      queue_before |-> <<>>, executed |-> <<>>, consulted |-> <<>>, translated |-> FALSE,
      spawned |-> 0, fault |-> "none", error |-> "none", code |-> 0,
      triaged |-> FALSE, triage_queue |-> <<>>, staged |-> FALSE, results |-> <<>>,
      command |-> <<>>, context |-> <<>>, output |-> <<>>, queues |-> <<>> ]

\* no component has been called from outside the loop
NoCall == [op |-> "none", text |-> <<>>]

\* a faulty prompt: the prefill is lost when the prompt raises
prompt_interrupted_clears(st) == [st EXCEPT !.prompt_prefill = <<>>]

\* the session state after a prompt that raised instead of returning a line: the
\* statement that clears the prefill is not reached
prompt_interrupted(st) == st

AtPrompt(event) ==
    [NoStep EXCEPT !.event = event,
                   !.offered = state.prompt_prefill,
                   !.queue_before = state.pending_commands]

Init ==
    /\ state = ShellState
    /\ pc = "prompt"
    /\ step = NoStep
    /\ os_name = "posix"
    /\ call = NoCall

\* KeyboardInterrupt raised by the prompt
PromptInterrupt ==
    /\ pc = "prompt"
    /\ pc' = after_prompt_exception
    /\ step' = AtPrompt("interrupt")
    /\ state' = prompt_interrupted(state)
    /\ UNCHANGED <<os_name, call>>

\* EOFError raised by the prompt
PromptEOF ==
    /\ pc = "prompt"
    /\ pc' = after_prompt_exception
    /\ step' = AtPrompt("eof")
    /\ state' = prompt_interrupted(state)
    /\ UNCHANGED <<os_name, call>>

\* the pass of the loop for user_input, a line that takes the given branch of the
\* loop body; reply is what the language model answers if it is asked
\* kind_of over the lines of the model, as a table
kinds_of_inputs == [os \in {"posix", "nt"} |-> [user_input \in Inputs |-> kind_of(user_input, os)]]

Submit(kind, user_input, reply) ==
    /\ Len(state.history) < MaxHistory
    /\ kinds_of_inputs[os_name][user_input] = kind
    /\ \E buffer_result \in {process_input(state, user_input)},
          output \in {IF kind = "translate" /\ ~reply.fails
                      THEN translate(reply.content) ELSE <<>>},
          outcomes \in [1..calls(state, user_input, os_name, reply) -> SessionOutcomes] :
         \E body \in {loop_body(state, user_input, os_name, reply, outcomes)} :
           \E pass \in {end_of_pass(body, user_input)} :
             /\ state' = pass.state
             /\ pc' = pass.pc
             /\ step' = [AtPrompt("line") EXCEPT
                           !.input = user_input, !.kind = kind,
                           !.executed = body.run.executed,
                           !.consulted = body.run.consulted,
                           !.translated = body.run.translated,
                           !.spawned = body.run.spawned,
                           !.fault = body.run.fault, !.error = pass.error,
                           !.code = body.run.code,
                           !.triaged = body.run.triaged,
                           !.triage_queue = body.run.triage_queue,
                           !.staged = body.run.staged,
                           !.results = body.run.results,
                           !.queues = body.run.queues,
                           !.command = buffer_result.command,
                           !.context = buffer_result.context,
                           !.output = output]
    /\ UNCHANGED <<os_name, call>>

\* a line of blanks: the loop prompts again
SubmitBlank ==
    /\ pc = "prompt"
    /\ \E user_input \in Inputs : Submit("blank", user_input, NoReply)

\* a line that is empty or a comment once its file references are taken out
SubmitIgnored ==
    /\ pc = "prompt"
    /\ \E user_input \in Inputs : Submit("ignored", user_input, NoReply)

\* a line classified SHELL_COMMAND
SubmitShellCommand ==
    /\ pc = "prompt"
    /\ \E user_input \in Inputs : Submit("shell", user_input, NoReply)

\* a natural-language line that is a rerun phrase
SubmitShortcut ==
    /\ pc = "prompt"
    /\ \E user_input \in Inputs : Submit("shortcut", user_input, NoReply)

\* a natural-language line that goes to the translator
SubmitNaturalLanguage ==
    /\ pc = "prompt"
    /\ \E user_input \in Inputs : \E reply \in Replies : Submit("translate", user_input, reply)

\* a line with the ai: prefix
SubmitAiRequest ==
    /\ pc = "prompt"
    /\ \E user_input \in Inputs : Submit("ai", user_input, NoReply)

Next ==
    \/ PromptInterrupt
    \/ PromptEOF
    \/ SubmitBlank
    \/ SubmitIgnored
    \/ SubmitShellCommand
    \/ SubmitShortcut
    \/ SubmitNaturalLanguage
    \/ SubmitAiRequest

Spec == Init /\ [][Next]_vars

---------------------------------------------------------------------------
(* The executor called on its own: any caller hands any command text to    *)
(* ShellExecutor.execute, one call after the other, on the ShellState the   *)
(* calls before it left.  call records the last call: the text, what came  *)
(* back, and pwd_seen, the output of the latest pwd since the latest cd    *)
(* that succeeded (empty if there was none).                               *)

Commands ==
    { <<"c","d"," ","/","t","m","p">>, <<"c","d"," ","/","n","o","p","e">>, <<"c","d"," ","/","t","m","p","/","a",".","p","y">>, <<"c","d"," ","n","o","p","e">>, <<"c","d"," ",".",".">>, <<"c","d">>, <<"c","d"," ","/","n","o","\"","p","e">>, <<"c","d"," ","/","r","o","o","t">>,
      <<"p","w","d">>, <<" "," ","p","w","d"," ">>, <<"e","x","p","o","r","t"," ","A","=","1">>, <<"e","x","p","o","r","t">>, <<"m","o","d","e"," ","a","i">>, <<"m","o","d","e">>, <<"m","o","d","e"," ","z","z">>,
      <<"s","l","e","e","p"," ","9">>, <<>>, <<"#"," ","c">>, <<"B","A","S","H">>, <<" ","s","h"," ">>, <<"e","c","h","o"," ","\"","h","i">>, <<"e","x","i","t"," ","3">> }

\* the words of a command text as the executor sees them (none if the text does
\* not tokenise)
command_words(text) == IF shlex_split(strip(text)).ok THEN shlex_split(strip(text)).parts ELSE <<>>

\* the built-in a command text is dispatched to, if any
builtin_of(text) == IF command_words(text) # <<>> /\ command_words(text)[1] \in builtins THEN command_words(text)[1] ELSE <<>>

NoExecute ==
    [ op |-> "none", text |-> <<>>, result |-> NoResult, raised |-> "none", code |-> 0,
      spawned |-> FALSE, process |-> "none", pwd_seen |-> <<>> ]

\* what is known of the output of pwd after one more call
pwd_seen_after(seen, text, r) ==
    IF r.raised # "none" THEN seen
    ELSE IF builtin_of(text) = <<"c","d">> /\ r.result.returncode = 0 THEN <<>>
    ELSE IF builtin_of(text) = <<"p","w","d">> THEN r.result.stdout
    ELSE seen

ExecutorInit ==
    /\ state = ShellState
    /\ pc = "prompt"
    /\ step = NoStep
    /\ os_name = "posix"
    /\ call = NoExecute

\* one call of execute; the termination signal of exit ends the caller
Execute ==
    /\ pc = "prompt"
    /\ \E command \in Commands, outcome \in ProcessOutcomes :
         \E r \in {execute(state, command, outcome)} :
           /\ state' = r.state
           /\ pc' = IF r.raised = "SystemExit" THEN after_system_exit ELSE pc
           /\ call' = [ op |-> "execute", text |-> command, result |-> r.result,
                        raised |-> r.raised, code |-> r.code, spawned |-> r.spawned,
                        process |-> r.process,
                        pwd_seen |-> pwd_seen_after(call.pwd_seen, command, r) ]
    /\ UNCHANGED <<step, os_name>>

ExecutorNext == Execute

ExecutorSpec == ExecutorInit /\ [][ExecutorNext]_vars

---------------------------------------------------------------------------
(* The parser called on its own: any caller hands any text to              *)
(* InputParser.classify or InputParser.extract_ai_request, on either        *)
(* platform.  The text is fixed when the call is made; call records the    *)
(* method called and what it returned.                                     *)

\* the longest text, counted in pieces
MaxPieces == 3

Pieces == { <<"l","s">>, <<"d","i","r">>, <<"D","o">>, <<" ">>, <<"#">>, <<"a","i",":">>, <<"A","I",":">>, <<"|">>, <<"&">>, <<"/">>, <<"=">> }

RECURSIVE flatten(_)
flatten(ps) == IF ps = <<>> THEN <<>> ELSE Head(ps) \o flatten(Tail(ps))

Texts == { flatten(ps) : ps \in UNION { [1..n -> Pieces] : n \in 0..MaxPieces } }

NoParse == [op |-> "none", text |-> <<>>, class |-> "none", request |-> <<>>]

ParserInit ==
    /\ state = ShellState
    /\ pc = "prompt"
    /\ step = NoStep
    /\ os_name \in {"posix", "nt"}
    /\ \E user_input \in Texts : call = [NoParse EXCEPT !.text = user_input]

Classify ==
    /\ call.op = "none"
    /\ call' = [call EXCEPT !.op = "classify", !.class = classify(call.text, os_name)]
    /\ UNCHANGED <<state, pc, step, os_name>>

ExtractAiRequest ==
    /\ call.op = "none"
    /\ call' = [call EXCEPT !.op = "extract_ai_request", !.request = extract_ai_request(call.text)]
    /\ UNCHANGED <<state, pc, step, os_name>>

ParserNext == Classify \/ ExtractAiRequest

ParserSpec == ParserInit /\ [][ParserNext]_vars

---------------------------------------------------------------------------
(* Two sessions side by side.  state is one session, call.twin another that *)
(* starts in any of the three modes; both are given the same line, the same *)
(* reply of the language model and the same process outcomes, pass after    *)
(* pass.  call.a and call.b are what each pass did, call.only_mode tells    *)
(* whether the two sessions differed at most in mode before the pass.       *)

ModeInputs ==
    { <<"l","s"," ","-","l","a">>, <<"m","o","d","e">>, <<"m","o","d","e"," ","a","i">>, <<"b","r","e","w"," ","i","n","s","t","a","l","l"," ","x">>, <<"G","o"," ","a","h","e","a","d">>, <<"a","i",":"," ","f","o","o">> }

\* what a pass did that can be seen from outside the mode field: its branch,
\* the commands executed, those the autorun predicate was asked about, the
\* processes started, and the queue and the prefill it leaves
seen(kind, body, pass) ==
    [ kind |-> kind, executed |-> body.run.executed, consulted |-> body.run.consulted,
      translated |-> body.run.translated, spawned |-> body.run.spawned,
      pending_commands |-> pass.state.pending_commands,
      prompt_prefill |-> pass.state.prompt_prefill, pc |-> pass.pc ]

NoTwin == [op |-> "none", twin |-> ShellState, a |-> <<>>, b |-> <<>>, only_mode |-> TRUE]

more_calls(m, n) == IF m >= n THEN m ELSE n

ModeInit ==
    /\ state = ShellState
    /\ pc = "prompt"
    /\ step = NoStep
    /\ os_name = "posix"
    /\ \E mode \in modes : call = [NoTwin EXCEPT !.twin = [ShellState EXCEPT !.mode = mode]]

\* the two passes of the loop, each on its own session
both_passes(user_input, reply, outcomes) ==
    \E body_a \in {loop_body(state, user_input, os_name, reply, outcomes)},
       body_b \in {loop_body(call.twin, user_input, os_name, reply, outcomes)} :
      \E pass_a \in {end_of_pass(body_a, user_input)},
         pass_b \in {end_of_pass(body_b, user_input)} :
        /\ state' = pass_a.state
        /\ pc' = pass_a.pc
        /\ call' = [ op |-> "twin", twin |-> pass_b.state,
                     a |-> seen(kind_of(user_input, os_name), body_a, pass_a),
                     b |-> seen(kind_of(user_input, os_name), body_b, pass_b),
                     only_mode |-> ([state EXCEPT !.mode = call.twin.mode] = call.twin) ]
        /\ step' = [AtPrompt("line") EXCEPT !.input = user_input]

SubmitToBoth ==
    /\ pc = "prompt"
    /\ Len(state.history) < MaxHistory
    /\ \E user_input \in ModeInputs :
         \E reply \in (IF kind_of(user_input, os_name) = "translate" THEN Replies ELSE {NoReply}) :
           \E outcomes \in [1..more_calls(calls(state, user_input, os_name, reply),
                                          calls(call.twin, user_input, os_name, reply))
                            -> ProcessOutcomes] :
             both_passes(user_input, reply, outcomes)
    /\ UNCHANGED os_name

ModeNext == SubmitToBoth

ModeSpec == ModeInit /\ [][ModeNext]_vars

---------------------------------------------------------------------------
(* The autorun predicate called on its own: any translated command, in any  *)
(* working directory.  call records the command and the answer.             *)

AutorunCommands ==
    { head \o arg \o tail :
        head \in { <<"p","y","t","h","o","n"," ">>, <<"p","y"," ">>, <<"P","Y","T","H","O","N"," ">>, <<"p","y","t","h","o","n","3"," ">>, <<"l","s"," ">>, <<"e","c","h","o"," ">>, <<>> },
        arg \in { <<"a",".","p","y">>, <<"/","t","m","p","/","a",".","p","y">>, <<"n","o","p","e",".","p","y">>, <<"\"","a",".","p","y">>, <<"'","a",".","p","y","'">>, <<"k",".","p","e","m">>, <<"A",".","P","Y">>, <<"r","m">> },
        tail \in { <<>>, <<" ","\"","x">>, <<";"," ","r","m"," ","x">>, <<" ","x">> } }

NoAutorun == [op |-> "none", text |-> <<>>, allowed |-> FALSE]

AutorunInit ==
    /\ \E cwd \in Dirs : state = [ShellState EXCEPT !.cwd = cwd]
    /\ pc = "prompt"
    /\ step = NoStep
    /\ os_name = "posix"
    /\ \E command \in AutorunCommands : call = [NoAutorun EXCEPT !.text = command]

ShouldAutorun ==
    /\ call.op = "none"
    /\ call' = [call EXCEPT !.op = "_should_autorun",
                            !.allowed = _should_autorun(call.text, state.cwd)]
    /\ UNCHANGED <<state, pc, step, os_name>>

AutorunNext == ShouldAutorun

AutorunSpec == AutorunInit /\ [][AutorunNext]_vars

---------------------------------------------------------------------------
(* The translator on its own: the reply of the language model is drawn at  *)
(* the start and translate post-processes it.                              *)

TranslatorReplies ==
    { lead \o <<backtick,backtick,backtick>> \o tag \o <<"\n">> \o code \o <<"\n",backtick,backtick,backtick>> \o trail :
        lead \in { <<>>, <<"R","u","n",":","\n">>, <<"s","h","o","w",":","\n">> },
        tag \in { <<>>, <<"b","a","s","h">>, <<"s","h">>, <<"p","y","t","h","o","n">> },
        code \in { <<"l","s"," ","-","l","a">>, <<"g","i","t"," ","p","u","s","h">>, <<"e","c","h","o"," ","h","i">> },
        trail \in { <<>>, <<"\n",backtick,backtick,backtick,"s","h","\n","p","w","d","\n",backtick,backtick,backtick>>, <<"\n","o","k">> } }
    \cup { <<"l","s"," ","-","l","a">>, <<" "," ","g","i","t"," ","p","u","s","h"," ","\n">>, <<"#"," ","c","\n","l","s">> }

NoTranslate == [op |-> "none", text |-> <<>>, command |-> <<>>]

TranslatorInit ==
    /\ state = ShellState
    /\ pc = "prompt"
    /\ step = NoStep
    /\ os_name = "posix"
    /\ \E content \in TranslatorReplies : call = [NoTranslate EXCEPT !.text = content]

\* command = await self.translator.translate(...), the model having replied call.text
Translate ==
    /\ call.op = "none"
    /\ call' = [call EXCEPT !.op = "translate", !.command = translate(call.text)]
    /\ UNCHANGED <<state, pc, step, os_name>>

TranslatorNext == Translate

TranslatorSpec == TranslatorInit /\ [][TranslatorNext]_vars

---------------------------------------------------------------------------
(* The input buffer on its own: the line is drawn at the start and         *)
(* process_input is applied to it.                                         *)

BufferPieces ==
    { <<>>, <<"c","a","t"," ">>, <<"@","a">>, <<"@","a","b">>, <<" ">>, <<"{","c","l","i","p","}">>, <<"{","c","l","i","p","b","o","a","r","d","}">>, <<"x">> }

BufferTexts == { a \o b \o c : a \in BufferPieces, b \in BufferPieces, c \in BufferPieces }

NoProcess == [op |-> "none", text |-> <<>>, command |-> <<>>, context |-> <<>>]

BufferInit ==
    /\ state = ShellState
    /\ pc = "prompt"
    /\ step = NoStep
    /\ os_name = "posix"
    /\ \E text \in BufferTexts : call = [NoProcess EXCEPT !.text = text]

\* buffer_result = self.input_buffer.process_input(call.text)
ProcessInput ==
    /\ call.op = "none"
    /\ \E buffer_result \in {process_input(state, call.text)} :
         call' = [call EXCEPT !.op = "process_input",
                              !.command = buffer_result.command,
                              !.context = buffer_result.context]
    /\ UNCHANGED <<state, pc, step, os_name>>

BufferNext == ProcessInput

BufferSpec == BufferInit /\ [][BufferNext]_vars

---------------------------------------------------------------------------
(* Properties of the session loop.  Each is a predicate on the state the   *)
(* loop is in after a pass: step tells what the pass did, state what it    *)
(* left.                                                                   *)

\* the commands the triage loop of the last pass handed to the executor: in the
\* SHELL_COMMAND branch the first call is the line the user typed
TriageExecuted == IF step.kind = "shell" THEN Tail(step.executed) ELSE step.executed

IsSuffix(s, t) == Len(s) <= Len(t) /\ s = SubSeq(t, Len(t) - Len(s) + 1, Len(t))

\* the first word of the line is exit
IsExitLine(text) == split(text) # <<>> /\ split(text)[1] = <<"e","x","i","t">>

ExitCodeOf(text) ==
    IF Len(split(text)) >= 2 /\ isdigit(split(text)[2]) THEN int_of(split(text)[2], 0) ELSE 0

\* C1: whenever the triage loop ran, it executed, in queue order, exactly the leading
\* commands of its queue that the autorun predicate allowed and dequeued each of
\* them; it stopped with the queue empty, or with the first denied command at the
\* front of pending_commands and its text in prompt_prefill.
C1_TriageRunsAllowedPrefix ==
    step.triaged =>
        LET queue == step.triage_queue
            ran == TriageExecuted
            n == Len(ran)
        IN  /\ n <= Len(queue)
            /\ ran = SubSeq(queue, 1, n)
            /\ \A i \in 1..n : step.consulted[i].allowed
            /\ state.pending_commands = SubSeq(queue, n + 1, Len(queue))
            /\ \/ state.pending_commands = <<>>
               \/ /\ Len(step.consulted) = n + 1
                  /\ ~step.consulted[n + 1].allowed
                  /\ step.consulted[n + 1].command = Head(state.pending_commands)
                  /\ state.prompt_prefill = Head(state.pending_commands)

\* C2: a rerun phrase submitted while commands are pending executes every queued
\* command once, in queue order, without asking the autorun predicate and without
\* calling the translator, and leaves pending_commands and prompt_prefill empty.
C2_RerunRunsWholeQueue ==
    (step.kind = "shortcut" /\ step.queue_before # <<>>) =>
        /\ step.executed = step.queue_before
        /\ step.consulted = <<>>
        /\ ~step.translated
        /\ state.pending_commands = <<>>
        /\ state.prompt_prefill = <<>>

\* C3: submitting the offered prefill unchanged executes exactly that text, takes it
\* off the front of pending_commands, and neither calls the translator nor replaces
\* the queue.
C3_ConfirmRunsStagedCommand ==
    (step.event = "line" /\ step.offered # <<>> /\ step.input = step.offered) =>
        /\ step.executed # <<>>
        /\ step.executed[1] = step.offered
        /\ ~step.translated
        /\ IsSuffix(state.pending_commands, Tail(step.queue_before))

\* C4: a shell command equal to the front of pending_commands is executed, the front
\* is popped and, if commands remain, triage resumes on them; any other shell command
\* is executed and leaves pending_commands as it was.
C4_ReentryPopsFrontAndResumes ==
    step.kind = "shell" =>
        LET processed_input == clean_command(step.input) IN
        IF step.queue_before # <<>> /\ processed_input = Head(step.queue_before)
        THEN /\ step.executed # <<>>
             /\ step.executed[1] = processed_input
             /\ IsSuffix(state.pending_commands, Tail(step.queue_before))
             /\ (Tail(step.queue_before) # <<>> =>
                   step.triaged /\ step.triage_queue = Tail(step.queue_before))
        ELSE /\ step.executed = <<processed_input>>
             /\ state.pending_commands = step.queue_before

\* C5: a line whose first word is exit reaches the exit built-in and ends the loop
\* with the code given (0 by default).
C5_ExitAtPromptEndsSession ==
    (step.event = "line" /\ IsExitLine(step.input)) =>
        /\ pc = "done"
        /\ step.fault = "SystemExit"
        /\ step.code = ExitCodeOf(step.input)

\* C6 as stated: whenever the loop waits for input with pending_commands non-empty,
\* prompt_prefill is the text of the front element.
C6_QueueFrontIsAlwaysOffered ==
    (pc = "prompt" /\ state.pending_commands # <<>>) =>
        state.prompt_prefill = Head(state.pending_commands)

\* C6 as amended: when a pass staged a command, the next prompt offers the exact
\* text of the front of pending_commands, and a prefill that is set is always that
\* front; the prefill is cleared as soon as a prompt returns a line, so pending
\* commands can wait with no prefill.
C6_StagingOffersQueueFront ==
    pc = "prompt" =>
        /\ step.staged =>
             state.pending_commands # <<>> /\ state.prompt_prefill = Head(state.pending_commands)
        /\ state.prompt_prefill # <<>> =>
             state.pending_commands # <<>> /\ state.prompt_prefill = Head(state.pending_commands)
        /\ (step.event = "line" /\ ~step.staged) => state.prompt_prefill = <<>>

\* a pass staged the denied command behind commands it ran itself
C6_Witness ==
    /\ pc = "prompt"
    /\ step.staged
    /\ step.executed # <<>>
    /\ state.prompt_prefill = Head(state.pending_commands)

\* C7: every call of execute made by the loop returns a result, or raises the
\* termination signal of the exit built-in; no other exception leaves it.
C7_ExecuteNeverRaises ==
    step.executed # <<>> => step.fault \in {"none", "SystemExit"}

\* C8: the loop ends only by the signal of the exit built-in: after a pass that ended
\* in a non-zero return code, a timeout, a failed spawn, a translator failure or
\* any other exception, the loop is at the prompt again.
C8_OnlyExitEndsSession ==
    /\ pc \in {"prompt", "done"}
    /\ pc = "done" <=> step.fault = "SystemExit"
    /\ step.fault = "SystemExit" =>
         /\ step.executed # <<>>
         /\ shlex_split(strip(step.executed[Len(step.executed)])).ok
         /\ shlex_split(strip(step.executed[Len(step.executed)])).parts[1] = <<"e","x","i","t">>

\* an exception reached the except clause of the loop, after an external command
\* had timed out earlier, and the loop prompts again
C8_Witness ==
    /\ pc = "prompt"
    /\ step.error = "loop"
    /\ state.last_returncode = TimeoutReturnCode

\* C9: when the translator raises, pending_commands is what it was before the line,
\* nothing is executed, the error is reported by the handler and the loop goes on.
C9_FailedTranslationKeepsQueue ==
    (step.kind = "translate" /\ step.fault = "TranslatorError") =>
        /\ state.pending_commands = step.queue_before
        /\ step.executed = <<>>
        /\ step.error = "translation"
        /\ pc = "prompt"

\* the translator raised while commands were pending
C9_Witness ==
    /\ step.kind = "translate"
    /\ step.fault = "TranslatorError"
    /\ step.queue_before # <<>>
    /\ state.pending_commands = step.queue_before

\* C10 as stated: end of input at the prompt ends the session loop.
C10_EofEndsSession == step.event = "eof" => pc = "done"

\* C10 as amended: end of input at the prompt is caught like an interrupt; the loop
\* prompts again with the session state untouched, and it ends only after a line
\* that raised the signal of the exit built-in.
C10_EofReturnsToPrompt ==
    /\ step.event = "eof" =>
         /\ pc = "prompt"
         /\ state.pending_commands = step.queue_before
         /\ state.prompt_prefill = step.offered
    /\ pc = "done" => (step.event = "line" /\ step.fault = "SystemExit")

\* end of input arrived while a staged command was offered
C10_Witness ==
    /\ step.event = "eof"
    /\ pc = "prompt"
    /\ state.prompt_prefill # <<>>

---------------------------------------------------------------------------
(* Properties of the prompt, the executor, the parser and the input        *)
(* buffer.                                                                 *)

\* C11: an interrupt raised by the prompt ends neither the session nor changes the
\* session state: the loop is at the prompt again with pending_commands,
\* prompt_prefill, history, cwd and the last_* fields as they were, so a staged
\* command is offered again.
C11_InterruptKeepsSession ==
    [][step'.event = "interrupt" => (pc' = "prompt" /\ state' = state)]_vars

\* the prompt was interrupted while it offered a staged command, after a line
\* had been handled
C11_Witness ==
    /\ step.event = "interrupt"
    /\ pc = "prompt"
    /\ state.history # <<>>
    /\ state.pending_commands # <<>>
    /\ state.prompt_prefill = Head(state.pending_commands)


\* the results of a pass that came from an execution the executor completed
completed_results(results) == SelectSeq(results, LAMBDA e : ~not_executed(e.result.command))

\* C12: last_command, last_stdout, last_stderr and last_returncode change only
\* when the executor completes a built-in or external execution, and then hold
\* the result of the last one; a pass that only translates, triages or stages
\* leaves all four as they were.
C12_LastXOnlyFromCompletedExecutions ==
    [][IF completed_results(step'.results) = <<>>
       THEN last_x(state') = last_x(state)
       ELSE last_x(state') =
              result_x(completed_results(step'.results)[Len(completed_results(step'.results))].result)]_vars

\* a pass that translated and staged a command without executing anything, after
\* an earlier pass that executed one
C12_Witness ==
    /\ step.event = "line" /\ step.translated /\ step.staged
    /\ step.results = <<>>
    /\ state.prompt_prefill # <<>>
    /\ state.last_command # <<>>
    /\ state.last_command # state.prompt_prefill

---------------------------------------------------------------------------
(* The input classifier.                                                   *)

\* the text without the whitespace around it
trimmed(text) == strip(text)

\* the first whitespace-delimited token of a text is a known command
first_token_known(text, os) == split(text) # <<>> /\ split(text)[1] \in SHELL_COMMANDS(os)

\* the text holds one of | > < && || ; >>
has_operator(text) ==
    \E i \in 1..Len(text) :
        \/ text[i] \in {"|", ">", "<", ";"}
        \/ i < Len(text) /\ text[i] = "&" /\ text[i + 1] = "&"

\* the trimmed text starts with '#', or case-insensitively with 'ai:'
comment_or_ai(text) ==
    \/ trimmed(text) # <<>> /\ trimmed(text)[1] = "#"
    \/ /\ Len(trimmed(text)) >= 3
       /\ trimmed(text)[1] \in {"a", "A"}
       /\ trimmed(text)[2] \in {"i", "I"}
       /\ trimmed(text)[3] = ":"

\* C13 as stated: a text whose first token is a known command, or which holds a
\* shell operator, is classified ShellCommand.
C13_KnownCommandOrOperatorIsShell ==
    (call.op = "classify" /\ (first_token_known(call.text, os_name) \/ has_operator(call.text)))
        => call.class = "SHELL_COMMAND"

\* C13: a text whose first token is a known command, or which holds a shell
\* operator, is classified ShellCommand whatever the case of its later
\* characters, provided the trimmed text starts neither with '#' nor,
\* case-insensitively, with 'ai:'.
C13_KnownCommandOrOperatorIsShellUnlessCommentOrAi ==
    (/\ call.op = "classify"
     /\ first_token_known(call.text, os_name) \/ has_operator(call.text)
     /\ ~comment_or_ai(call.text))
        => call.class = "SHELL_COMMAND"

\* a text classified for its operator alone
C13_Witness ==
    /\ call.op = "classify"
    /\ has_operator(call.text)
    /\ ~first_token_known(call.text, os_name)
    /\ ~comment_or_ai(call.text)
    /\ split(call.text)[1] = <<"D","o">>
    /\ call.class = "SHELL_COMMAND"

\* the first whitespace-delimited token of a text, empty if it has none
first_token(text) == IF split(text) = <<>> THEN <<>> ELSE split(text)[1]

\* the token starts with './' or with '/'
path_like(token) ==
    \/ token # <<>> /\ token[1] = "/"
    \/ Len(token) >= 2 /\ token[1] = "." /\ token[2] = "/"

\* the token is an assignment NAME=value: it holds an '='
assignment_like(token) == \E i \in 1..Len(token) : token[i] = "="

\* the class the cascade gives a text: the first of the five tests that applies
cascade_class(text, os) ==
    CASE trimmed(text) = <<>> -> "EMPTY"
      [] trimmed(text) # <<>> /\ trimmed(text)[1] = "#" -> "COMMENT"
      [] trimmed(text) # <<>> /\ trimmed(text)[1] # "#" /\ comment_or_ai(text) -> "AI_REQUEST"
      [] /\ trimmed(text) # <<>> /\ ~comment_or_ai(text)
         /\ \/ first_token_known(text, os)
            \/ has_operator(text)
            \/ path_like(first_token(text))
            \/ assignment_like(first_token(text)) -> "SHELL_COMMAND"
      [] OTHER -> "NATURAL_LANGUAGE"

---------------------------------------------------------------------------
(* The mode field.                                                         *)

\* C15: mode is advisory only.  Two sessions that differ at most in mode and
\* are given the same line take the same branch, execute the same commands, ask
\* the autorun predicate about the same commands, and leave the same
\* pending_commands and prompt_prefill.
C15_ModeIsAdvisory ==
    (call.op = "twin" /\ call.only_mode) => call.a = call.b

\* two sessions in different modes that translated the same line and ran the
\* same command of the reply
C15_Witness ==
    /\ call.op = "twin" /\ call.only_mode
    /\ state.mode # call.twin.mode
    /\ call.a.kind = "translate"
    /\ call.a.executed # <<>> /\ call.a.consulted # <<>>
    /\ call.b.executed = call.a.executed
    /\ call.a.prompt_prefill # <<>>

---------------------------------------------------------------------------
(* The executor and its built-ins.                                         *)

\* the text is cd followed by a path: the path, as typed
cd_path(text) ==
    IF startswith(strip(text), <<"c","d"," ">>) THEN strip(SubSeq(strip(text), 4, Len(strip(text)))) ELSE <<>>

\* the directory a path typed after cd stands for, seen from the working directory
resolved(st, path) == normpath(cd_absolute(st, expanduser(path, st.env)))

\* the text is cd <path> for a path that is no existing directory
cd_to_no_directory(st, text) == cd_path(text) # <<>> /\ ~isdir(resolved(st, cd_path(text)))

\* C16: execute("cd <path>") for a path that does not resolve to an existing
\* directory returns return code 1 with a no-such-directory message in stderr,
\* leaves cwd and env as they were and starts no process.
C16_CdToMissingDirectoryFails ==
    [][(call'.op = "execute" /\ cd_to_no_directory(state, call'.text)) =>
         /\ call'.raised = "none"
         /\ call'.result.returncode = 1
         /\ contains(call'.result.stderr, <<"N","o"," ","s","u","c","h"," ","d","i","r","e","c","t","o","r","y">>)
         /\ state'.cwd = state.cwd
         /\ state'.env = state.env
         /\ ~call'.spawned]_vars

\* C16 for the paths that tokenise: the same, for a path that shlex.split
\* accepts (no open quote, no trailing backslash)
C16_CdToMissingDirectoryFailsIfTokenised ==
    [][(/\ call'.op = "execute"
        /\ cd_to_no_directory(state, call'.text)
        /\ shlex_split(strip(call'.text)).ok) =>
         /\ call'.raised = "none"
         /\ call'.result.returncode = 1
         /\ contains(call'.result.stderr, <<"N","o"," ","s","u","c","h"," ","d","i","r","e","c","t","o","r","y">>)
         /\ state'.cwd = state.cwd
         /\ state'.env = state.env
         /\ ~call'.spawned]_vars

\* C17: when the process of a command exceeds the timeout, execute raises
\* nothing and returns a result with return code 124, empty stdout and a
\* timeout message in stderr, which it records in the last_* fields; the
\* caller goes on.
C17_TimeoutIsAResult ==
    (call.op = "execute" /\ call.process = "timeout") =>
        /\ call.raised = "none"
        /\ call.result.returncode = TimeoutReturnCode
        /\ call.result.stdout = <<>>
        /\ contains(call.result.stderr, <<"t","i","m","e","d"," ","o","u","t">>)
        /\ call.result.command = strip(call.text)
        /\ last_x(state) = result_x(call.result)
        /\ pc = "prompt"

\* a command that timed out, after one whose output had been recorded
C17_Witness ==
    /\ call.op = "execute" /\ call.process = "timeout" /\ call.spawned
    /\ call.text = <<"s","l","e","e","p"," ","9">>
    /\ state.last_returncode = TimeoutReturnCode
    /\ state.cwd = <<"/","t","m","p">>

\* C18: pwd returns the working directory and leaves it as it is; the working
\* directory changes only in a cd that succeeds; so two pwd with no successful
\* cd between them print the same, whatever was executed in between.
C18_PwdIsStableBetweenCds ==
    [][call'.op = "execute" =>
         /\ (builtin_of(call'.text) = <<"p","w","d">> /\ call'.raised = "none") =>
              /\ call'.result.stdout = state.cwd \o <<"\n">>
              /\ state'.cwd = state.cwd
              /\ call.pwd_seen # <<>> => call'.result.stdout = call.pwd_seen
         /\ state'.cwd # state.cwd =>
              /\ builtin_of(call'.text) = <<"c","d">>
              /\ call'.raised = "none"
              /\ call'.result.returncode = 0]_vars

---------------------------------------------------------------------------
(* The ai: prefix.                                                         *)

\* the trimmed text starts, in any case, with ai:
ai_text(text) ==
    /\ Len(trimmed(text)) >= 3
    /\ trimmed(text)[1] \in {"a", "A"}
    /\ trimmed(text)[2] \in {"i", "I"}
    /\ trimmed(text)[3] = ":"

\* what follows the prefix, without the whitespace around it
after_prefix(text) == trimmed(SubSeq(trimmed(text), 4, Len(trimmed(text))))

\* the text with whitespace added in front of it, behind it, or both
padded(text) == { before \o text \o behind : before, behind \in {<<>>, <<" ">>, <<" "," ">>} }

\* C19: a text that, trimmed, starts in any case with ai: is classified
\* AiRequest, and extract_ai_request returns what follows the prefix, trimmed;
\* whitespace added before or behind the text changes neither.
C19_AiPrefixIsRecognisedAndStripped ==
    ai_text(call.text) =>
        /\ call.op = "classify" =>
             /\ call.class = "AI_REQUEST"
             /\ \A text \in padded(call.text) : classify(text, os_name) = call.class
        /\ call.op = "extract_ai_request" =>
             /\ call.request = after_prefix(call.text)
             /\ \A text \in padded(call.text) : extract_ai_request(text) = call.request

\* a request taken out of a text with whitespace before the prefix and after it
C19_Witness ==
    /\ call.op = "extract_ai_request"
    /\ ai_text(call.text)
    /\ call.text # trimmed(call.text)
    /\ call.request = <<"D","o">>

---------------------------------------------------------------------------
(* Context extraction.                                                     *)

\* the path of a line that is one @<path> reference and nothing else: the
\* trimmed line is an @ followed by a path without whitespace, a star or a
\* clipboard marker (empty if the line is something else)
single_ref(text) ==
    IF /\ Len(trimmed(text)) >= 2
       /\ trimmed(text)[1] = "@"
       /\ \A i \in 2..Len(trimmed(text)) : trimmed(text)[i] \notin Whitespace \cup {"*", "{", "@"}
    THEN Tail(trimmed(text))
    ELSE <<>>

---------------------------------------------------------------------------
(* The command field of a result.                                          *)

\* C21: for every execution the command field of the result returned, and so
\* last_command, is the trimmed text that was executed, for the built-ins as
\* for external commands.
C21_ResultNamesExecutedText ==
    (call.op = "execute" /\ call.raised = "none" /\ ~not_executed(strip(call.text))) =>
        /\ call.result.command = strip(call.text)
        /\ state.last_command = strip(call.text)

\* C21 for external commands: the command field and last_command are the
\* trimmed text handed to the process
C21_ExternalResultNamesExecutedText ==
    (call.op = "execute" /\ call.raised = "none" /\ call.spawned) =>
        /\ call.result.command = strip(call.text)
        /\ state.last_command = strip(call.text)

---------------------------------------------------------------------------
(* The autorun predicate.                                                  *)

\* the lower-cased command starts with a safe prefix
starts_safe(command) == \E prefix \in safe_prefixes : startswith(lower(command), prefix)

\* the lower-cased command holds a risky keyword
holds_risky(command) ==
    \E keyword \in risky_keywords :
        \E i \in 1..Len(command) :
            /\ i + Len(keyword) - 1 <= Len(command)
            /\ SubSeq(lower(command), i, i + Len(keyword) - 1) = keyword

\* the words of the command: those of the shell if its quotes balance, else
\* those between whitespace
script_words(command) ==
    IF shlex_split(command).ok THEN shlex_split(command).parts ELSE split(command)

\* the command is python <script> or py <script> for a script that is an
\* existing .py file, seen from the working directory
runs_local_script(command, cwd) ==
    /\ \/ Len(command) >= 7 /\ SubSeq(lower(command), 1, 7) = <<"p","y","t","h","o","n"," ">>
       \/ Len(command) >= 3 /\ SubSeq(lower(command), 1, 3) = <<"p","y"," ">>
    /\ Len(script_words(command)) >= 2
    /\ path_join(cwd, script_words(command)[2]) \in Files
    /\ endswith(script_words(command)[2], <<".","p","y">>)

\* C22: the autorun predicate allows a command that starts with a safe prefix,
\* even if it holds a risky keyword; else denies one that holds a risky
\* keyword; else allows python <script> / py <script> for an existing local
\* .py file; else denies.  Unbalanced quotes make the script check split on
\* whitespace, and the predicate always answers.
C22_AutorunDecidesInOrder ==
    call.op = "_should_autorun" =>
        /\ call.allowed \in BOOLEAN
        /\ call.allowed =
             (IF starts_safe(call.text) THEN TRUE
              ELSE IF holds_risky(call.text) THEN FALSE
              ELSE runs_local_script(call.text, state.cwd))

\* a safe prefix that wins over a risky keyword
C22_Witness ==
    /\ call.op = "_should_autorun"
    /\ starts_safe(call.text) /\ holds_risky(call.text)
    /\ call.allowed

\* a script allowed although the quotes of the command do not balance
C22_WitnessUnbalanced ==
    /\ call.op = "_should_autorun"
    /\ ~shlex_split(call.text).ok
    /\ call.allowed /\ ~starts_safe(call.text)

---------------------------------------------------------------------------
(* The queue of translated commands.                                       *)

\* the lines of a text, cut at every newline
RECURSIVE lines_of(_, _, _)
lines_of(text, line, lines) ==
    IF text = <<>> THEN Append(lines, line)
    ELSE IF Head(text) = "\n" THEN lines_of(Tail(text), <<>>, Append(lines, line))
    ELSE lines_of(Tail(text), Append(line, Head(text)), lines)

\* the lines of a translated output that are neither blank nor comments,
\* trimmed, in their order
actionable_lines(output) ==
    LET all == lines_of(output, <<>>, <<>>)
        kept == { i \in 1..Len(all) : trimmed(all[i]) # <<>> /\ trimmed(all[i])[1] # "#" }
        nth(k) == CHOOSE i \in kept : Cardinality({ j \in kept : j < i }) = k - 1
    IN  [k \in 1..Cardinality(kept) |-> trimmed(all[nth(k)])]

\* C23: on every successful translation the queue that triage starts on is
\* exactly the non-blank, non-comment lines of the translated output, trimmed
\* and in their order; what was pending before is dropped, not executed.
C23_TranslationReplacesQueue ==
    (step.event = "line" /\ step.kind = "translate" /\ step.triaged) =>
        /\ step.triage_queue = actionable_lines(step.output)
        /\ \A i \in 1..Len(step.executed) :
             \E j \in 1..Len(step.triage_queue) : step.executed[i] = step.triage_queue[j]

\* a translation with a comment line, made while another command was pending
C23_Witness ==
    /\ step.event = "line" /\ step.kind = "translate" /\ step.triaged
    /\ step.queue_before # <<>>
    /\ \A j \in 1..Len(step.triage_queue) : step.triage_queue[j] # step.queue_before[1]
    /\ Len(step.triage_queue) >= 2
    /\ contains(step.output, <<"#">>)
    /\ step.executed # <<>>

\* the i-th command a pass handed to the executor is the line the user
\* submitted, classified ShellCommand
is_own_input(i) == step.kind = "shell" /\ i = 1 /\ step.executed[i] = step.command

\* it was the front of the queue when the autorun predicate allowed it
is_allowed_front(i) ==
    /\ step.kind \in {"shell", "translate"}
    /\ step.kind = "shell" => i > 1
    /\ step.queues[i] # <<>> /\ Head(step.queues[i]) = step.executed[i]
    /\ \E k \in 1..Len(step.consulted) :
         step.consulted[k] = [command |-> step.executed[i], allowed |-> TRUE]

\* it was in the queue during a rerun shortcut
is_rerun_of_queued(i) ==
    /\ step.kind = "shortcut"
    /\ \E j \in 1..Len(step.queues[i]) : step.queues[i][j] = step.executed[i]

\* C24: every command the session loop hands to the executor is the user's own
\* line classified ShellCommand, or the front of pending_commands when the
\* autorun predicate allowed it, or an element of pending_commands during a
\* rerun shortcut; a command the predicate denied is not executed otherwise.
C24_OnlyJustifiedCommandsAreExecuted ==
    step.event = "line" =>
        /\ Len(step.queues) = Len(step.executed)
        /\ \A i \in 1..Len(step.executed) :
             is_own_input(i) \/ is_allowed_front(i) \/ is_rerun_of_queued(i)
        /\ \A k \in 1..Len(step.consulted) :
             ~step.consulted[k].allowed =>
                 \A i \in 1..Len(step.executed) :
                     step.executed[i] = step.consulted[k].command => is_own_input(i)

\* the user confirmed the staged command; triage went on, ran the next command
\* it allowed and staged the one it denied
C24_Witness ==
    /\ step.event = "line" /\ step.kind = "shell"
    /\ Len(step.executed) = 2
    /\ is_own_input(1) /\ is_allowed_front(2)
    /\ step.offered = step.command
    /\ step.staged /\ state.prompt_prefill # <<>>
    /\ \A i \in 1..2 : step.executed[i] # state.prompt_prefill

\* the queue a pass starts on: the actionable lines of the translation when the
\* pass translated successfully, what was pending otherwise
queue_at_start ==
    IF step'.event = "line" /\ step'.kind = "translate" /\ step'.triaged
    THEN actionable_lines(step'.output)
    ELSE state.pending_commands

\* how many commands left the queue in the pass
left_queue == Len(queue_at_start) - Len(state'.pending_commands)

\* C25: pending_commands starts empty and after every step it is a contiguous
\* suffix of the actionable lines of the last successful translation; the
\* commands that left it are its front elements in their order, each handed to
\* the executor while it was the front of the queue and removed only after the
\* call returned; nothing is inserted, reordered or duplicated, also when two
\* queued commands have the same text.
C25_QueueIsFifo ==
    /\ state.pending_commands = <<>>
    /\ [][ /\ IsSuffix(state'.pending_commands, queue_at_start)
           /\ Len(step'.results) >= left_queue
           /\ \A i \in 1..left_queue :
                /\ step'.executed[i] = queue_at_start[i]
                /\ step'.queues[i] = SubSeq(queue_at_start, i, Len(queue_at_start))
         ]_vars

\* triage ran the front command of a queue that holds the same text again
\* further back, and only the front one left the queue
C25_Witness ==
    /\ step.event = "line" /\ step.kind = "translate" /\ step.triaged
    /\ Len(step.triage_queue) >= 3
    /\ step.triage_queue[1] = step.triage_queue[3]
    /\ step.executed = <<step.triage_queue[1]>>
    /\ state.pending_commands = Tail(step.triage_queue)

\* the last command the autorun predicate was asked about in the pass was denied
\* and is the one now offered
denied_front_is_offered ==
    /\ step'.consulted # <<>>
    /\ step'.consulted[Len(step'.consulted)] =
         [command |-> state'.prompt_prefill, allowed |-> FALSE]
    /\ state'.pending_commands # <<>>
    /\ state'.prompt_prefill = Head(state'.pending_commands)

\* C26: a prompt_prefill that is set is the front of a non-empty
\* pending_commands.  Only triage sets it, to the front command it denied; a
\* pass that handles a line or runs a rerun shortcut leaves it empty unless
\* triage set it again; while it stays set the queue is not modified.
C26_PrefillIsQueueFront ==
    /\ [](state.prompt_prefill # <<>> =>
            state.pending_commands # <<>> /\ state.prompt_prefill = Head(state.pending_commands))
    /\ [][ /\ step'.staged => denied_front_is_offered
           /\ (step'.event = "line" /\ ~step'.staged) => state'.prompt_prefill = <<>>
           /\ step'.event # "line" =>
                /\ state'.prompt_prefill = state.prompt_prefill
                /\ state'.pending_commands = state.pending_commands
           /\ (state.prompt_prefill # <<>> /\ state'.pending_commands # state.pending_commands) =>
                step'.event = "line" /\ step'.offered = state.prompt_prefill
         ]_vars

\* the user ran the offered command; it left the queue, triage went on and
\* offers the next command it denied
C26_Witness ==
    /\ pc = "prompt"
    /\ step.event = "line" /\ step.kind = "shell" /\ step.staged
    /\ step.offered # <<>> /\ step.offered = Head(step.queue_before)
    /\ state.prompt_prefill # <<>> /\ state.prompt_prefill # step.offered
    /\ Len(state.pending_commands) < Len(step.queue_before)
    /\ state.prompt_prefill = Head(state.pending_commands)

\* the pass handled a line that is neither empty nor a comment
handled_line == step'.event = "line" /\ step'.kind \in {"shell", "translate", "shortcut", "ai"}

\* C27: after a pass that handled a shell command, a natural-language request,
\* a rerun phrase or an ai: request and left the session running, history is
\* its previous value with the raw line appended; no step removes or reorders
\* history entries.
C27_HistoryAppendsHandledInput ==
    [][ /\ (handled_line /\ pc' = "prompt") =>
             state'.history = Append(state.history, step'.input)
        /\ state'.history = state.history \/ state'.history = Append(state.history, step'.input)
      ]_vars

\* What the loop does: history only grows, by the raw line, at the end of a
\* pass that took the shell, translation or ai: branch and let no exception
\* out; a rerun phrase and a pass that ended in the except clause add nothing.
C27_HistoryAppendsUnlessRerunOrException ==
    [][ /\ (handled_line /\ step'.kind # "shortcut" /\ step'.error # "loop" /\ pc' = "prompt") =>
             state'.history = Append(state.history, step'.input)
        /\ (step'.event # "line" \/ step'.kind \in {"shortcut", "blank", "ignored"}
              \/ step'.error = "loop" \/ pc' = "done") =>
             state'.history = state.history
      ]_vars

\* the fenced blocks of a reply: every second piece between the fences
fenced_blocks(reply) ==
    LET pieces == split_on(reply, <<backtick,backtick,backtick>>)
    IN  [k \in 1..(Len(pieces) \div 2) |-> pieces[2 * k]]

\* the language tag of a block: its first line
tag_of(block) == trimmed(lines_of(block, <<>>, <<>>)[1])

\* the block without the line that holds its tag
content_of(block) ==
    IF contains(block, <<"\n">>)
    THEN trimmed(SubSeq(block, Len(lines_of(block, <<>>, <<>>)[1]) + 2, Len(block)))
    ELSE <<>>

shell_tags == { <<"b","a","s","h">>, <<"s","h">> }

\* what the post-processing is to return for a reply
expected_command(reply) ==
    LET blocks == fenced_blocks(reply)
        tagged == { k \in 1..Len(blocks) : tag_of(blocks[k]) \in shell_tags }
    IN  IF blocks = <<>> THEN trimmed(reply)
        ELSE IF tagged # {}
        THEN content_of(blocks[CHOOSE k \in tagged : \A j \in tagged : k <= j])
        ELSE trimmed(blocks[1])

\* C28: translate returns the content of the first fenced block of the reply
\* that is tagged bash or sh, without the tag and otherwise unaltered, trimmed;
\* with no such block the first fenced block, trimmed; with no fence the
\* trimmed reply.
C28_TranslateReturnsFirstShellBlock ==
    call.op = "translate" => call.command = expected_command(call.text)

\* the text before the first fence starts with bash or sh once trimmed
lead_looks_tagged(reply) ==
    LET lead == trimmed(split_on(reply, <<backtick,backtick,backtick>>)[1])
    IN  startswith(lead, <<"b","a","s","h">>) \/ startswith(lead, <<"s","h">>)

\* What translate does: the claim's result when the text before the first
\* fence does not itself start with bash or sh and the chosen block holds the
\* letters sh nowhere but in its tag.
C28_TranslateReturnsFirstShellBlockWithoutSh ==
    (call.op = "translate" /\ ~lead_looks_tagged(call.text)
        /\ ~contains(expected_command(call.text), <<"s","h">>)) =>
        call.command = expected_command(call.text)

\* how many characters the reference or clipboard marker at the head of the
\* text takes; 0 when the text starts with neither
RECURSIVE token_length(_)
token_length(t) ==
    IF t = <<>> \/ IsSpace(Head(t)) THEN 0 ELSE 1 + token_length(Tail(t))

occurrence_length(t) ==
    IF Len(t) >= 2 /\ Head(t) = "@" /\ ~IsSpace(t[2]) THEN 1 + token_length(Tail(t))
    ELSE IF startswith(t, <<"{","c","l","i","p","b","o","a","r","d","}">>) THEN Len(<<"{","c","l","i","p","b","o","a","r","d","}">>)
    ELSE IF startswith(t, <<"{","c","l","i","p","}">>) THEN Len(<<"{","c","l","i","p","}">>)
    ELSE 0

\* the text with every reference and every clipboard marker taken out and
\* every other character kept
RECURSIVE without_occurrences(_)
without_occurrences(t) ==
    IF t = <<>> THEN <<>>
    ELSE IF occurrence_length(t) > 0
         THEN without_occurrences(SubSeq(t, occurrence_length(t) + 1, Len(t)))
         ELSE <<Head(t)>> \o without_occurrences(Tail(t))

\* C29: the command process_input returns is the line with every @token
\* occurrence and every {clipboard} or {clip} marker occurrence removed and
\* nothing else removed, then trimmed, whatever the number and combination of
\* references, one token being a prefix of another included.
C29_CleanedCommandRemovesExactlyTheReferences ==
    call.op = "process_input" => call.command = trimmed(without_occurrences(call.text))

\* no reference of the line is a proper prefix of another
no_prefix_references(text) ==
    \A i, j \in 1..Len(file_refs(text)) :
        LET a == file_refs(text)[i]
            b == file_refs(text)[j]
        IN  a # b => ~startswith(b, a)

\* What process_input does: the claim's result when no reference is a proper
\* prefix of another.
C29_CleanedCommandWithoutPrefixReferences ==
    (call.op = "process_input" /\ no_prefix_references(call.text)) =>
        call.command = trimmed(without_occurrences(call.text))

interpreter_names == { <<"c","m","d">>, <<"b","a","s","h">>, <<"s","h">>, <<"p","o","w","e","r","s","h","e","l","l">>, <<"p","w","s","h">>, <<"z","s","h">> }

\* the text is empty, a comment or the bare name of a shell interpreter
is_noop_text(text) ==
    \/ trimmed(text) = <<>>
    \/ trimmed(text)[1] = "#"
    \/ lower(trimmed(text)) \in interpreter_names

\* C30: execute on an empty text, a comment or a bare shell-interpreter name
\* (any case, blanks around it) returns return code 0 with empty stdout and
\* stderr, starts no process, and leaves cwd, env, mode and the four last_*
\* fields as they were.
C30_NoOpTextsChangeNothing ==
    [][ (call'.op = "execute" /\ is_noop_text(call'.text)) =>
            /\ call'.raised = "none"
            /\ call'.result.returncode = 0
            /\ call'.result.stdout = <<>> /\ call'.result.stderr = <<>>
            /\ ~call'.spawned /\ call'.process = "none"
            /\ state'.cwd = state.cwd /\ state'.env = state.env /\ state'.mode = state.mode
            /\ last_x(state') = last_x(state)
      ]_vars

\* an interpreter name in capitals was passed after a command had been
\* recorded, in a session that had left its first directory and mode
C30_Witness ==
    /\ call.op = "execute"
    /\ is_noop_text(call.text) /\ trimmed(call.text) # <<>> /\ call.text # lower(call.text)
    /\ state.last_command # <<>> /\ state.last_stdout # <<>>
    /\ state.cwd # ShellState.cwd /\ state.mode # ShellState.mode
====
